---- MODULE Spec2Model ----
(***************************************************************************)
(* A model of the jwt package of cruzebase: claims, claimsets, signing     *)
(* algorithms and the token build / split / clean / is_valid pipeline.     *)
(*                                                                         *)
(* bytes objects are sequences of 0..255, str objects are sequences of     *)
(* code points.  The library calls the package makes (urlsafe_b64encode,   *)
(* urlsafe_b64decode, bytes.decode, json.dumps, json.loads, hmac) are      *)
(* modelled by what they compute on those sequences.                       *)
(***************************************************************************)
EXTENDS Integers, Sequences, FiniteSets, TLC

(***************************************************************************)
(* Results of calls: the value returned, or the exception raised.          *)
(***************************************************************************)
Ok(v) == [exc |-> "none", val |-> v]

Raise(e) == [exc |-> e, val |-> <<>>]

\* The exception r when r is one, and F of the value of r when it is not.
Then(r, F(_)) == IF r.exc # "none" THEN r ELSE F(r.val)

(***************************************************************************)
(* base64.urlsafe_b64encode                                                *)
(***************************************************************************)
B64Char(v) ==
    IF v < 26 THEN 65 + v
    ELSE IF v < 52 THEN 97 + (v - 26)
    ELSE IF v < 62 THEN 48 + (v - 52)
    ELSE IF v = 62 THEN 45
    ELSE 95

urlsafe_b64encode(s) ==
    LET n == Len(s)
        byte(j) == IF j <= n THEN s[j] ELSE 0
        ch(k) ==
            LET g == (k - 1) \div 4
                pos == (k - 1) % 4
                b1 == byte(3 * g + 1)
                b2 == byte(3 * g + 2)
                b3 == byte(3 * g + 3)
            IN  IF pos = 0 THEN B64Char(b1 \div 4)
                ELSE IF pos = 1 THEN B64Char((b1 % 4) * 16 + (b2 \div 16))
                ELSE IF pos = 2
                     THEN (IF 3 * g + 2 > n THEN 61
                           ELSE B64Char((b2 % 16) * 4 + (b3 \div 64)))
                ELSE (IF 3 * g + 3 > n THEN 61 ELSE B64Char(b3 % 64))
    IN  [k \in 1..(4 * ((n + 2) \div 3)) |-> ch(k)]

(***************************************************************************)
(* base64.urlsafe_b64decode: '-' and '_' are translated to '+' and '/',    *)
(* then binascii.a2b_base64 runs in its non-strict mode: bytes outside the *)
(* alphabet are skipped, decoding stops at a complete pad sequence, and    *)
(* binascii.Error is raised only when the data characters do not fill the  *)
(* last quad.                                                              *)
(***************************************************************************)
B64Value(c) ==
    IF c >= 65 /\ c <= 90 THEN c - 65
    ELSE IF c >= 97 /\ c <= 122 THEN c - 97 + 26
    ELSE IF c >= 48 /\ c <= 57 THEN c - 48 + 52
    ELSE IF c = 45 \/ c = 43 THEN 62
    ELSE IF c = 95 \/ c = 47 THEN 63
    ELSE 64

IsData(c) == B64Value(c) < 64

\* The data characters of s before place i.
DataBefore(s, i) == SelectSeq(SubSeq(s, 1, i - 1), IsData)

\* The pad characters that a2b_base64 has counted when it has read s[i]: the
\* '=' since the last data character (a data character resets the count, a
\* byte outside the alphabet does not).
PadsAt(s, i) ==
    Cardinality({j \in 1..i : /\ s[j] = 61
                              /\ \A k \in (j + 1)..i : ~IsData(s[k])})

\* A pad sequence that completes the quad ends the decoding at place i.
StopsAt(s, i) ==
    /\ s[i] = 61
    /\ Len(DataBefore(s, i)) % 4 >= 2
    /\ (Len(DataBefore(s, i)) % 4) + PadsAt(s, i) >= 4

a2b_base64(s) ==
    LET stops == {i \in 1..Len(s) : StopsAt(s, i)}
        stop == IF stops = {} THEN Len(s) + 1
                ELSE CHOOSE i \in stops : \A j \in stops : i <= j
        data == DataBefore(s, stop)
        n == Len(data)
        v(j) == B64Value(data[j])
        byte(k) ==
            LET g == 4 * ((k - 1) \div 3)
                r == (k - 1) % 3
            IN  IF r = 0 THEN v(g + 1) * 4 + (v(g + 2) \div 16)
                ELSE IF r = 1 THEN (v(g + 2) % 16) * 16 + (v(g + 3) \div 4)
                ELSE (v(g + 3) % 4) * 64 + v(g + 4)
    IN  IF stops = {} /\ n % 4 # 0 THEN Raise("binascii.Error")
        ELSE Ok([k \in 1..(3 * (n \div 4) + (IF n % 4 = 0 THEN 0 ELSE (n % 4) - 1))
                    |-> byte(k)])

urlsafe_b64decode(s) == a2b_base64(s)

(***************************************************************************)
(* str.encode() and bytes.decode() (UTF-8), for code points below 0x800.   *)
(* Lead bytes of three- and four-byte sequences (0xE0..0xF4) lie outside   *)
(* the inputs of this model.                                               *)
(***************************************************************************)
NotMinusOne(x) == x # -1

\* The sequence s with every -1 dropped.
Compact(s) == SelectSeq(s, NotMinusOne)

encode(s) ==
    Compact([k \in 1..(2 * Len(s)) |->
        LET c == s[(k + 1) \div 2]
        IN  IF k % 2 = 1 THEN (IF c < 128 THEN c ELSE 192 + (c \div 64))
            ELSE (IF c < 128 THEN -1 ELSE 128 + (c % 64))])

IsLead(x) == x >= 194 /\ x <= 223

IsContinuation(x) == x >= 128 /\ x <= 191

decode(b) ==
    LET n == Len(b)
        good(i) ==
            \/ b[i] < 128
            \/ IsLead(b[i]) /\ i < n /\ IsContinuation(b[i + 1])
            \/ IsContinuation(b[i]) /\ i > 1 /\ IsLead(b[i - 1])
    IN  IF \E i \in 1..n : ~good(i) THEN Raise("UnicodeDecodeError")
        ELSE Ok(Compact([i \in 1..n |->
                    IF b[i] < 128 THEN b[i]
                    ELSE IF IsLead(b[i]) THEN (b[i] - 192) * 64 + (b[i + 1] - 128)
                    ELSE -1]))

(***************************************************************************)
(* JSON values of the model: str, int and None, each carried with its type *)
(* so that "1" and 1 are different values.                                 *)
(***************************************************************************)
JStr(s) == [t |-> "str", v |-> s]

JInt(n) == [t |-> "int", v |-> <<n>>]

None == [t |-> "none", v |-> <<>>]

(***************************************************************************)
(* json.dumps of a dict of str keys and str / int values, the dict given   *)
(* as its items in insertion order: '{"k": v, "k2": v2}'.  Strings are     *)
(* printable ASCII; '"' and '\' are escaped with a backslash.              *)
(***************************************************************************)
RECURSIVE NatDigits(_)
NatDigits(n) ==
    IF n < 10 THEN <<48 + n>> ELSE Append(NatDigits(n \div 10), 48 + (n % 10))

IntDigits(n) == IF n < 0 THEN <<45>> \o NatDigits(0 - n) ELSE NatDigits(n)

JsonEscape(s) ==
    Compact([k \in 1..(2 * Len(s)) |->
        LET c == s[(k + 1) \div 2]
        IN  IF k % 2 = 0 THEN c
            ELSE IF c = 34 \/ c = 92 THEN 92 ELSE -1])

JsonString(s) == <<34>> \o JsonEscape(s) \o <<34>>

JsonValue(x) == IF x.t = "str" THEN JsonString(x.v) ELSE IntDigits(x.v[1])

RECURSIVE JsonItems(_, _)
JsonItems(items, i) ==
    IF i > Len(items) THEN <<>>
    ELSE (IF i > 1 THEN <<44, 32>> ELSE <<>>)
         \o JsonString(items[i][1]) \o <<58, 32>> \o JsonValue(items[i][2])
         \o JsonItems(items, i + 1)

json_dumps(items) == <<123>> \o JsonItems(items, 1) \o <<125>>

(***************************************************************************)
(* dict.update one key at a time: a key already present keeps its place    *)
(* and takes the new value.                                                *)
(***************************************************************************)
DictUpdate(items, k, x) ==
    IF \E j \in 1..Len(items) : items[j][1] = k
    THEN [j \in 1..Len(items) |-> IF items[j][1] = k THEN <<k, x>> ELSE items[j]]
    ELSE Append(items, <<k, x>>)

RECURSIVE DictOfItems(_, _, _)
DictOfItems(items, i, acc) ==
    IF i > Len(items) THEN acc
    ELSE DictOfItems(items, i + 1, DictUpdate(acc, items[i][1], items[i][2]))

\* A dict as a function from its keys to its values.
DictMap(items) ==
    LET d == DictOfItems(items, 1, <<>>)
    IN  [k \in {d[j][1] : j \in 1..Len(d)} |->
            d[CHOOSE j \in 1..Len(d) : d[j][1] = k][2]]

\* dict.get(key, None)
DictGet(m, k) == IF k \in DOMAIN m THEN m[k] ELSE None

(***************************************************************************)
(* json.loads of a str, for documents that are one object whose values are *)
(* strings or integers.  A document json.loads rejects raises              *)
(* JSONDecodeError; "Unsupported" marks a document that uses JSON outside  *)
(* this subset (arrays, nested objects, floats, literals, other escapes).  *)
(***************************************************************************)
Parsed(v, next) == [exc |-> "none", val |-> v, next |-> next]

ParseFail(e) == [exc |-> e, val |-> <<>>, next |-> 0]

IsWs(c) == c = 32 \/ c = 9 \/ c = 10 \/ c = 13

IsDigit(c) == c >= 48 /\ c <= 57

RECURSIVE SkipWs(_, _)
SkipWs(s, i) == IF i <= Len(s) /\ IsWs(s[i]) THEN SkipWs(s, i + 1) ELSE i

\* s[i - 1] is the opening quote.
RECURSIVE ScanString(_, _, _)
ScanString(s, i, out) ==
    IF i > Len(s) THEN ParseFail("JSONDecodeError")
    ELSE IF s[i] = 34 THEN Parsed(JStr(out), i + 1)
    ELSE IF s[i] < 32 THEN ParseFail("JSONDecodeError")
    ELSE IF s[i] = 92
    THEN (IF i = Len(s) THEN ParseFail("JSONDecodeError")
          ELSE IF s[i + 1] = 34 \/ s[i + 1] = 92 \/ s[i + 1] = 47
          THEN ScanString(s, i + 2, Append(out, s[i + 1]))
          ELSE IF s[i + 1] \in {98, 102, 110, 114, 116, 117}
          THEN ParseFail("Unsupported")
          ELSE ParseFail("JSONDecodeError"))
    ELSE ScanString(s, i + 1, Append(out, s[i]))

RECURSIVE ScanDigits(_, _, _)
ScanDigits(s, i, acc) ==
    IF i <= Len(s) /\ IsDigit(s[i])
    THEN ScanDigits(s, i + 1, acc * 10 + (s[i] - 48))
    ELSE <<acc, i>>

\* NUMBER_RE of json.scanner: -?(0|[1-9]\d*), a fraction or exponent makes a float.
ScanNumber(s, i) ==
    LET neg == s[i] = 45
        j == IF neg THEN i + 1 ELSE i
    IN  IF j > Len(s) \/ ~IsDigit(s[j])
        THEN (IF neg /\ j <= Len(s) /\ s[j] = 73
              THEN ParseFail("Unsupported") ELSE ParseFail("JSONDecodeError"))
        ELSE LET r == IF s[j] = 48 THEN <<0, j + 1>> ELSE ScanDigits(s, j, 0)
                 k == r[2]
             IN  IF k <= Len(s) /\ s[k] \in {46, 101, 69}
                 THEN ParseFail("Unsupported")
                 ELSE Parsed(JInt(IF neg THEN 0 - r[1] ELSE r[1]), k)

ScanValue(s, i) ==
    IF i > Len(s) THEN ParseFail("JSONDecodeError")
    ELSE IF s[i] = 34 THEN ScanString(s, i + 1, <<>>)
    ELSE IF s[i] = 45 \/ IsDigit(s[i]) THEN ScanNumber(s, i)
    ELSE IF s[i] \in {123, 91, 116, 102, 110, 78, 73} THEN ParseFail("Unsupported")
    ELSE ParseFail("JSONDecodeError")

\* s[i] is the first character of a key, after '{' or ','.
RECURSIVE ScanPairs(_, _, _)
ScanPairs(s, i, items) ==
    IF i > Len(s) \/ s[i] # 34 THEN ParseFail("JSONDecodeError")
    ELSE LET key == ScanString(s, i + 1, <<>>)
         IN  IF key.exc # "none" THEN key
             ELSE LET c == SkipWs(s, key.next)
                  IN  IF c > Len(s) \/ s[c] # 58 THEN ParseFail("JSONDecodeError")
                      ELSE LET x == ScanValue(s, SkipWs(s, c + 1))
                           IN  IF x.exc # "none" THEN x
                               ELSE LET e == SkipWs(s, x.next)
                                        got == Append(items, <<key.val.v, x.val>>)
                                    IN  IF e > Len(s) THEN ParseFail("JSONDecodeError")
                                        ELSE IF s[e] = 125 THEN Parsed(got, e + 1)
                                        ELSE IF s[e] = 44
                                        THEN ScanPairs(s, SkipWs(s, e + 1), got)
                                        ELSE ParseFail("JSONDecodeError")

ScanObject(s, i) ==
    LET j == SkipWs(s, i + 1)
    IN  IF j <= Len(s) /\ s[j] = 125 THEN Parsed(<<>>, j + 1)
        ELSE ScanPairs(s, j, <<>>)

json_loads(s) ==
    LET i == SkipWs(s, 1)
    IN  IF i > Len(s) THEN Raise("JSONDecodeError")
        ELSE IF s[i] # 123
        THEN (IF s[i] \in {91, 34, 45, 116, 102, 110, 78, 73} \/ IsDigit(s[i])
              THEN Raise("Unsupported") ELSE Raise("JSONDecodeError"))
        ELSE LET o == ScanObject(s, i)
             IN  IF o.exc # "none" THEN Raise(o.exc)
                 ELSE IF SkipWs(s, o.next) <= Len(s) THEN Raise("JSONDecodeError")
                 ELSE Ok(DictMap(o.val))

(***************************************************************************)
(* The str constants of the package, as code points.                       *)
(***************************************************************************)
S_typ == <<116, 121, 112>>

S_alg == <<97, 108, 103>>

S_iss == <<105, 115, 115>>

S_sub == <<115, 117, 98>>

S_aud == <<97, 117, 100>>

S_nbf == <<110, 98, 102>>

S_exp == <<101, 120, 112>>

S_JWT == <<74, 87, 84>>

S_none == <<110, 111, 110, 101>>

S_HS256 == <<72, 83, 50, 53, 54>>

S_HS384 == <<72, 83, 51, 56, 52>>

S_HS512 == <<72, 83, 53, 49, 50>>

\* b'.'
Dot == 46

(***************************************************************************)
(* jwt.algorithms                                                          *)
(***************************************************************************)
\* The (name, hash function) tuples of HMACAlgorithm.
SHA256 == [name |-> S_HS256, hash |-> "sha256"]

SHA384 == [name |-> S_HS384, hash |-> "sha384"]

SHA512 == [name |-> S_HS512, hash |-> "sha512"]

NoHash == [name |-> S_none, hash |-> "none"]

HMACAlgorithm(hash_algo) == [cls |-> "HMACAlgorithm", hash_algo |-> hash_algo]

NoneAlgorithm == [cls |-> "NoneAlgorithm", hash_algo |-> NoHash]

\* A bytes object (a str object is JStr).
Bytes(b) == [t |-> "bytes", v |-> b]

force_bytes(value) ==
    IF value.t = "str" THEN Ok(encode(value.v))
    ELSE IF value.t = "bytes" THEN Ok(value.v)
    ELSE Raise("TypeError")

(***************************************************************************)
(* hmac.new(key, msg, digestmod).digest().  HMAC pads a key shorter than   *)
(* the hash's block with zero bytes, so keys that differ only in trailing  *)
(* zero bytes are the same key.  The digest itself is a keyed polynomial   *)
(* checksum standing for the hash: it is a function of the padded key, the *)
(* message and the hash, and it tells apart all the keys and messages of   *)
(* this model.  Its length keeps the residue modulo 3 of the real digest   *)
(* size (32, 48, 64), hence the same base64 padding.                       *)
(***************************************************************************)
RECURSIVE HmacKeyBlock(_)
HmacKeyBlock(key) ==
    IF Len(key) > 0 /\ key[Len(key)] = 0
    THEN HmacKeyBlock(SubSeq(key, 1, Len(key) - 1))
    ELSE key

DigestSize(hash) ==
    IF hash = "sha256" THEN 5 ELSE IF hash = "sha384" THEN 6 ELSE 7

\* <<h, p>>: the polynomial checksum h of s[lo..hi] modulo prime, and
\* p = base^(hi - lo + 1) modulo prime.
RECURSIVE PolyHash(_, _, _, _, _)
PolyHash(s, lo, hi, base, prime) ==
    IF lo = hi THEN <<(s[lo] + 1) % prime, base % prime>>
    ELSE LET mid == (lo + hi) \div 2
             l == PolyHash(s, lo, mid, base, prime)
             r == PolyHash(s, mid + 1, hi, base, prime)
         IN  <<(l[1] * r[2] + r[1]) % prime, (l[2] * r[2]) % prime>>

Digest(hash, key, msg) ==
    LET data == <<DigestSize(hash)>> \o HmacKeyBlock(key) \o <<256>> \o msg
        a1 == PolyHash(data, 1, Len(data), 263, 46337)[1]
        a2 == PolyHash(data, 1, Len(data), 269, 46327)[1]
        a3 == PolyHash(data, 1, Len(data), 271, 46309)[1]
        all == <<a1 \div 256, a1 % 256, a2 \div 256, a2 % 256,
                 a3 \div 256, a3 % 256, (a1 + a2 + a3) % 256>>
    IN  SubSeq(all, 1, DigestSize(hash))

\* A sign that takes the digest of the message up to its first b'.' only:
\* of the header segment.
sign_header_only(alg_instance, msg, key) ==
    IF alg_instance.cls = "NoneAlgorithm" THEN Ok(<<>>)
    ELSE Then(force_bytes(key), LAMBDA k :
              Ok(Digest(alg_instance.hash_algo.hash, k,
                        SubSeq(msg, 1, Cardinality({i \in 1..Len(msg) :
                                          \A j \in 1..i : msg[j] # Dot})))))

\* HMACAlgorithm.sign / NoneAlgorithm.sign
sign(alg_instance, msg, key) ==
    IF alg_instance.cls = "NoneAlgorithm" THEN Ok(<<>>)
    ELSE LET k == force_bytes(key)
         IN  IF k.exc # "none" THEN k
             ELSE Ok(Digest(alg_instance.hash_algo.hash, k.val, msg))

\* A verify that compares the two signatures up to the length of the
\* shorter.
verify_common_prefix(alg_instance, msg, key, sig) ==
    IF alg_instance.cls = "NoneAlgorithm" THEN Ok(FALSE)
    ELSE Then(sign(alg_instance, msg, key), LAMBDA s :
              Ok(\A i \in 1..Len(sig) : i <= Len(s) => sig[i] = s[i]))

\* A verify whose NoneAlgorithm accepts the signature NoneAlgorithm makes.
verify_none_accepts_empty(alg_instance, msg, key, sig) ==
    IF alg_instance.cls = "NoneAlgorithm" THEN Ok(sig = <<>>)
    ELSE Then(sign(alg_instance, msg, key), LAMBDA s : Ok(sig = s))

\* A verify that compares the lengths of the two signatures only.
verify_length_only(alg_instance, msg, key, sig) ==
    IF alg_instance.cls = "NoneAlgorithm" THEN Ok(FALSE)
    ELSE Then(sign(alg_instance, msg, key), LAMBDA s : Ok(Len(sig) = Len(s)))

\* HMACAlgorithm.verify / NoneAlgorithm.verify; hmac.compare_digest is
\* equality of the two byte strings.
verify(alg_instance, msg, key, sig) ==
    IF alg_instance.cls = "NoneAlgorithm" THEN Ok(FALSE)
    ELSE LET s == sign(alg_instance, msg, key)
         IN  IF s.exc # "none" THEN s ELSE Ok(sig = s.val)

(***************************************************************************)
(* jwt.claims.  A claim class is named by a string; a claim instance holds *)
(* the attributes its constructor sets.  Datetimes are seconds on the UTC  *)
(* clock.                                                                  *)
(***************************************************************************)
\* timedelta(seconds=30), the default of NbfClaim.
NbfDefault == 30

\* timedelta(days=7), the default of ExpClaim, in seconds.
ExpDefault == 604800

ClaimInstance(cls, claim, alg, dt) ==
    [cls |-> cls, claim |-> claim, alg |-> alg, dt |-> dt]

\* claim(**kw) at the instant utcnow; kw is the dict of keyword arguments,
\* empty for claim().
NewClaim(cls, kw, utcnow) ==
    IF cls = "BaseClaim"
    THEN (IF DOMAIN kw = {} THEN Ok(ClaimInstance(cls, None, NoHash, 0))
          ELSE Raise("TypeError"))
    ELSE IF cls = "TypClaim"
    THEN (IF DOMAIN kw = {} THEN Ok(ClaimInstance(cls, JStr(S_JWT), NoHash, 0))
          ELSE Raise("TypeError"))
    ELSE IF cls = "BaseAlgClaim"
    THEN (IF DOMAIN kw = {} THEN Ok(ClaimInstance(cls, None, NoHash, 0))
          ELSE Raise("TypeError"))
    ELSE IF cls = "HMACAlgClaim"
    THEN (IF DOMAIN kw \subseteq {"alg"}
          THEN Ok(ClaimInstance(cls, None,
                                IF "alg" \in DOMAIN kw THEN kw.alg ELSE SHA256, 0))
          ELSE Raise("TypeError"))
    ELSE IF cls = "IssClaim"
    THEN (IF DOMAIN kw = {"iss"} THEN Ok(ClaimInstance(cls, kw.iss, NoHash, 0))
          ELSE Raise("TypeError"))
    ELSE IF cls = "SubClaim"
    THEN (IF DOMAIN kw = {"sub"} THEN Ok(ClaimInstance(cls, kw.sub, NoHash, 0))
          ELSE Raise("TypeError"))
    ELSE IF cls = "AudClaim"
    THEN (IF DOMAIN kw = {"aud"} THEN Ok(ClaimInstance(cls, kw.aud, NoHash, 0))
          ELSE Raise("TypeError"))
    ELSE IF cls = "NbfClaim"
    THEN (IF DOMAIN kw \subseteq {"nbf"}
          THEN Ok(ClaimInstance(cls, None, NoHash,
                    utcnow + (IF "nbf" \in DOMAIN kw THEN kw.nbf ELSE NbfDefault)))
          ELSE Raise("TypeError"))
    ELSE (IF DOMAIN kw \subseteq {"exp"}
          THEN Ok(ClaimInstance(cls, None, NoHash,
                    utcnow + (IF "exp" \in DOMAIN kw THEN kw.exp ELSE ExpDefault)))
          ELSE Raise("TypeError"))

IsDateTimeClaim(cls) == cls \in {"NbfClaim", "ExpClaim"}

\* The class attributes _optional and name.
Optional(cls) == cls \notin {"TypClaim", "BaseAlgClaim", "HMACAlgClaim"}

ClaimName(cls) ==
    IF cls = "TypClaim" THEN S_typ
    ELSE IF cls \in {"BaseAlgClaim", "HMACAlgClaim"} THEN S_alg
    ELSE IF cls = "IssClaim" THEN S_iss
    ELSE IF cls = "SubClaim" THEN S_sub
    ELSE IF cls = "AudClaim" THEN S_aud
    ELSE IF cls = "NbfClaim" THEN S_nbf
    ELSE S_exp

key(c) == ClaimName(c.cls)

\* datetime.timestamp() of a datetime read from the UTC clock, on a host
\* whose local time is UTC.
timestamp(dt) == dt

value(c) ==
    IF IsDateTimeClaim(c.cls) THEN JInt(timestamp(c.dt))
    ELSE IF c.cls = "BaseAlgClaim" THEN JStr(S_none)
    ELSE IF c.cls = "HMACAlgClaim" THEN JStr(c.alg.name)
    ELSE c.claim

\* Python's `a is b` for a value b decoded from JSON and a value a of the
\* claim.  Objects that are not equal are never identical; whether two equal
\* str or int objects created apart are one object is up to the interpreter
\* (interned tells which), except for the values CPython keeps one object
\* of: None, the empty string and the small integers.
Cached(x) ==
    \/ x.t = "none"
    \/ x.t = "str" /\ x.v = <<>>
    \/ x.t = "int" /\ x.v[1] >= -5 /\ x.v[1] <= 256

Is(a, b, interned) == a = b /\ (interned \/ Cached(a))

\* A BaseClaim.is_valid that refuses None for optional claims too.
BaseClaim_is_valid_none_refused(c, data) ==
    IF data = None THEN Raise("InvalidClaimError") ELSE Ok(TRUE)

\* BaseClaim.is_valid
BaseClaim_is_valid(c, data) ==
    IF ~Optional(c.cls) /\ data = None THEN Raise("InvalidClaimError")
    ELSE Ok(TRUE)

\* `not data`
Falsy(x) ==
    \/ x.t = "none"
    \/ x.t = "str" /\ x.v = <<>>
    \/ x.t = "int" /\ x.v[1] = 0

\* NbfClaim.is_datetime_invalid / ExpClaim.is_datetime_invalid
is_datetime_invalid(c, dt, utcnow) ==
    IF c.cls = "NbfClaim" THEN dt >= utcnow ELSE dt <= utcnow

\* A claim.is_valid that checks that the claim is there, not its value.
claim_is_valid_presence_only(c, data, utcnow, interned) ==
    Then(BaseClaim_is_valid(c, data), LAMBDA r : Ok(None))

\* A claim.is_valid that takes a time claim without data as an optional
\* claim that is not there.
claim_is_valid_absent_time_accepted(c, data, utcnow, interned) ==
    IF c.cls = "BaseClaim" THEN BaseClaim_is_valid(c, data)
    ELSE IF IsDateTimeClaim(c.cls)
    THEN (IF Falsy(data) THEN Ok(None)
          ELSE IF data.t # "int" THEN Raise("TypeError")
          ELSE IF is_datetime_invalid(c, data.v[1], utcnow)
          THEN Raise("InvalidClaimError")
          ELSE Ok(None))
    ELSE (IF ~Is(value(c), data, interned) THEN Raise("InvalidClaimError")
          ELSE Then(BaseClaim_is_valid(c, data), LAMBDA r : Ok(None)))

\* claim.is_valid(data) at the instant utcnow
claim_is_valid(c, data, utcnow, interned) ==
    IF c.cls = "BaseClaim" THEN BaseClaim_is_valid(c, data)
    ELSE IF IsDateTimeClaim(c.cls)
    THEN (IF Falsy(data) THEN Raise("InvalidClaimError")
          ELSE IF data.t # "int" THEN Raise("TypeError")
          ELSE IF is_datetime_invalid(c, data.v[1], utcnow)
          THEN Raise("InvalidClaimError")
          ELSE LET r == BaseClaim_is_valid(c, data)
               IN  IF r.exc # "none" THEN r ELSE Ok(None))
    ELSE (IF ~Is(value(c), data, interned) THEN Raise("InvalidClaimError")
          ELSE LET r == BaseClaim_is_valid(c, data)
               IN  IF r.exc # "none" THEN r ELSE Ok(None))

(***************************************************************************)
(* jwt.claimsets.  A claimset instance is its tuple of claim classes and   *)
(* the dict its _extra_kwargs() returns.                                   *)
(***************************************************************************)
Claimset(claims, extra_kwargs) == [claims |-> claims, extra_kwargs |-> extra_kwargs]

NoKwargs == << >>

\* HMACHeaderClaimset(alg): _extra_kwargs() is {'alg': alg}, keyed by the
\* str 'alg' and not by a claim class.
HMACHeaderClaimset(alg) ==
    Claimset(<<"TypClaim", "HMACAlgClaim">>, [alg |-> alg])

\* One step of _instantiate_claims: the claim class at place i, built with
\* its entry of the extra kwargs, or without arguments on KeyError.
InstantiateClaim(cs, i, utcnow) ==
    NewClaim(cs.claims[i],
             IF cs.claims[i] \in DOMAIN cs.extra_kwargs
             THEN cs.extra_kwargs[cs.claims[i]] ELSE NoKwargs,
             utcnow)

RECURSIVE ClaimItems(_, _, _, _)
ClaimItems(cs, i, utcnow, items) ==
    IF i > Len(cs.claims) THEN Ok(items)
    ELSE Then(InstantiateClaim(cs, i, utcnow), LAMBDA c :
              ClaimItems(cs, i + 1, utcnow, DictUpdate(items, key(c), value(c))))

\* BaseClaimset.as_json at the instant utcnow
as_json(cs, utcnow) ==
    Then(ClaimItems(cs, 1, utcnow, <<>>), LAMBDA items : Ok(json_dumps(items)))

\* BaseClaimset.as_claimset
as_claimset(cs, utcnow) ==
    Then(as_json(cs, utcnow), LAMBDA j : Ok(urlsafe_b64encode(encode(j))))

\* What a validation of a claimset did: its result and, in order, the keys
\* of the claims whose is_valid it called.
Validated(ret, calls) == [ret |-> ret, calls |-> calls]

ThenValidate(r, calls, F(_)) == IF r.exc # "none" THEN Validated(r, calls) ELSE F(r.val)

\* claim i of the claimset, instantiated and validated against data.get(key)
ClaimOutcome(cs, i, data, utcnow, interned) ==
    Then(InstantiateClaim(cs, i, utcnow), LAMBDA c :
         claim_is_valid(c, DictGet(data, key(c)), utcnow, interned))

\* A BaseClaimset.is_valid that validates every claim of the claimset and
\* then raises the error of the first that failed.
RECURSIVE claimset_validate_every_claim(_, _, _, _, _, _)
claimset_validate_every_claim(cs, i, data, utcnow, interned, calls) ==
    IF i > Len(cs.claims) THEN Validated(Ok(TRUE), calls)
    ELSE LET rest == claimset_validate_every_claim(
                         cs, i + 1, data, utcnow, interned,
                         Append(calls, ClaimName(cs.claims[i])))
             this == ClaimOutcome(cs, i, data, utcnow, interned)
         IN  IF this.exc # "none" THEN Validated(this, rest.calls) ELSE rest

\* BaseClaimset.is_valid from claim i on: the claims are instantiated one at
\* a time, each validated before the next is instantiated.
RECURSIVE claimset_validate(_, _, _, _, _, _)
claimset_validate(cs, i, data, utcnow, interned, calls) ==
    IF i > Len(cs.claims) THEN Validated(Ok(TRUE), calls)
    ELSE ThenValidate(InstantiateClaim(cs, i, utcnow), calls, LAMBDA c :
         ThenValidate(claim_is_valid(c, DictGet(data, key(c)), utcnow, interned),
                      Append(calls, key(c)), LAMBDA r :
         claimset_validate(cs, i + 1, data, utcnow, interned,
                           Append(calls, key(c)))))

\* BaseClaimset.is_valid: its result.
claimset_is_valid(cs, i, data, utcnow, interned) ==
    claimset_validate(cs, i, data, utcnow, interned, <<>>).ret

\* claimset_factory(*args): a claimset class with the claims args. The
\* class has no extra_kwargs of its own: the attribute is the dict of
\* BaseClaimset.
claimset_factory(args) ==
    IF args = <<>> THEN Raise("ClaimsetException") ELSE Ok(args)

\* add_kwargs(claimset, kwargs) on a claimset class, where shared is the
\* dict claimset.extra_kwargs names: the dict after update(kwargs).
add_kwargs(shared, kwargs) ==
    [k \in DOMAIN shared \cup DOMAIN kwargs |->
        IF k \in DOMAIN kwargs THEN kwargs[k] ELSE shared[k]]

\* claimset(): BaseClaimset and the classes of claimset_factory have no
\* __init__; no claim is instantiated.
claimset_new(cs) == Ok(cs)

(***************************************************************************)
(* jwt.BaseToken.  Exceptions of jwt.exceptions carry the token they were  *)
(* raised with: val is <<token>>, or << >> when no token was passed.       *)
(***************************************************************************)
RaiseWith(e, token) == [exc |-> e, val |-> <<token>>]

\* BaseToken.__init__ of a token class without extra_kwargs: the two
\* claimset classes are instantiated.
token_new(header_cls, payload_cls) ==
    Then(claimset_new(header_cls), LAMBDA h :
    Then(claimset_new(payload_cls), LAMBDA p :
    Ok([header |-> h, payload |-> p])))

\* A claimset class: its name, its claims and its extra_kwargs attribute.
ClaimsetClass(name, claims, extra_kwargs) ==
    [name |-> name, claims |-> claims, extra_kwargs |-> extra_kwargs]

\* authtoken.claimset.PayloadClaimset(aud) under the default time deltas.
PayloadClaimset(aud) ==
    Claimset(<<"IssClaim", "AudClaim", "NbfClaim", "ExpClaim">>,
             [IssClaim |-> [iss |-> JStr(<<73, 115, 115>>)],
              AudClaim |-> [aud |-> aud],
              NbfClaim |-> [nbf |-> 3],
              ExpClaim |-> [exp |-> ExpDefault]])

\* claimset_cls(**kw): HMACHeaderClaimset takes an optional alg that must
\* be a tuple, PayloadClaimset an aud that must be an int, and a class
\* without __init__ takes nothing.
claimset_init(cls, kw) ==
    IF cls.name = "HMACHeaderClaimset"
    THEN (IF ~(DOMAIN kw \subseteq {"alg"}) THEN Raise("TypeError")
          ELSE IF DOMAIN kw = {} THEN Ok(HMACHeaderClaimset(SHA256))
          ELSE IF kw.alg \notin {SHA256, SHA384, SHA512} THEN Raise("TypeError")
          ELSE Ok(HMACHeaderClaimset(kw.alg)))
    ELSE IF cls.name = "PayloadClaimset"
    THEN (IF DOMAIN kw # {"aud"} THEN Raise("TypeError")
          ELSE IF kw.aud.t # "int" THEN Raise("TypeError")
          ELSE Ok(PayloadClaimset(kw.aud)))
    ELSE (IF DOMAIN kw # {} THEN Raise("TypeError")
          ELSE Ok(Claimset(cls.claims, cls.extra_kwargs)))

\* The except TypeError branch of BaseToken.__init__: a claimset that is
\* not set yet is made with its entry of extra_kwargs.
FromEntry(cls, extra_kwargs, entry) ==
    IF entry \notin DOMAIN extra_kwargs THEN Raise("KeyError")
    ELSE claimset_init(cls, extra_kwargs[entry])

\* BaseToken.__init__ of a token class with the two claimset classes and
\* extra_kwargs.
token_init(header_cls, payload_cls, extra_kwargs) ==
    LET h == claimset_init(header_cls, NoKwargs)
        p == claimset_init(payload_cls, NoKwargs)
    IN  IF h.exc = "none" /\ p.exc = "none"
        THEN Ok([header |-> h.val, payload |-> p.val])
        ELSE Then(IF h.exc = "none" THEN h
                  ELSE FromEntry(header_cls, extra_kwargs, "header"),
                  LAMBDA header :
             Then(FromEntry(payload_cls, extra_kwargs, "payload"),
                  LAMBDA payload :
             Ok([header |-> header, payload |-> payload])))

\* token_factory(header, payload, kwargs); kwargs=None leaves the empty
\* extra_kwargs of BaseToken.
token_factory(header_cls, payload_cls, kwargs) ==
    token_init(header_cls, payload_cls, IF kwargs = None THEN NoKwargs ELSE kwargs)

\* BaseToken.join
join(header, payload, utcnow) ==
    Then(as_claimset(header, utcnow), LAMBDA h :
    Then(as_claimset(payload, utcnow), LAMBDA p :
    Ok(h \o <<Dot>> \o p)))

\* BaseToken._sign
_sign(signing_input, secret, alg_instance) ==
    Then(sign(alg_instance, signing_input, secret),
         LAMBDA sig : Ok(urlsafe_b64encode(sig)))

\* BaseToken.build
build(header, payload, secret, alg_instance, utcnow) ==
    Then(join(header, payload, utcnow), LAMBDA signing_input :
    Then(_sign(signing_input, secret, alg_instance), LAMBDA sig :
    Ok(signing_input \o <<Dot>> \o sig)))

\* The place of the last b'.' in s, 0 when there is none.
LastDot(s) ==
    IF \A i \in 1..Len(s) : s[i] # Dot THEN 0
    ELSE CHOOSE i \in 1..Len(s) :
            s[i] = Dot /\ \A j \in (i + 1)..Len(s) : s[j] # Dot

\* s cut at its byte d: both sides, or s alone when d = 0.
CutAt(s, d) ==
    IF d = 0 THEN <<s>> ELSE <<SubSeq(s, 1, d - 1), SubSeq(s, d + 1, Len(s))>>

\* s.rsplit(b'.', 1): one or two parts.
rsplit1(s) == CutAt(s, LastDot(s))

\* header, payload = parts: ValueError unless there are two.
Unpack2(parts, e) == IF Len(parts) # 2 THEN e ELSE Ok(parts)

\* BaseToken.split_claimsets
split_claimsets(claimsets) ==
    Unpack2(rsplit1(claimsets), Raise("MalformedTokenError"))

\* A split_crypto that splits on the first b'.' of the token.
split_crypto_first_dot(token) ==
    Unpack2(CutAt(token,
                  (Cardinality({i \in 1..Len(token) :
                                  \A j \in 1..i : token[j] # Dot}) + 1)
                  % (Len(token) + 1)),
            RaiseWith("MalformedTokenError", token))

\* BaseToken.split_crypto
split_crypto(token) ==
    Unpack2(rsplit1(token), RaiseWith("MalformedTokenError", token))

\* BaseToken.split
split(token) ==
    Then(split_crypto(token), LAMBDA c :
    Then(split_claimsets(c[1]), LAMBDA hp :
    Ok(<<hp[1], hp[2], c[2]>>)))

\* except binascii.Error: raise e
ExceptBinascii(r, e) == IF r.exc = "binascii.Error" THEN e ELSE r

\* BaseToken.clean_crypto
clean_crypto(token) ==
    Then(split_crypto(token), LAMBDA c :
    Then(ExceptBinascii(urlsafe_b64decode(c[2]),
                        RaiseWith("MalformedTokenError", token)),
         LAMBDA sig : Ok(<<c[1], sig>>)))

\* json.loads(urlsafe_b64decode(segment).decode())
LoadSegment(segment) ==
    Then(urlsafe_b64decode(segment), LAMBDA raw :
    Then(decode(raw), LAMBDA text : json_loads(text)))

\* BaseToken.clean_claimsets: only binascii.Error is caught.
clean_claimsets(claimsets) ==
    Then(split_claimsets(claimsets), LAMBDA hp :
    ExceptBinascii(
        Then(LoadSegment(hp[1]), LAMBDA header :
        Then(LoadSegment(hp[2]), LAMBDA payload :
        Ok(<<header, payload>>))),
        Raise("MalformedTokenError")))

\* BaseToken.clean
clean(token) ==
    Then(clean_crypto(token), LAMBDA c :
    Then(clean_claimsets(c[1]), LAMBDA hp :
    Ok(<<hp[1], hp[2], c[2]>>)))

(***************************************************************************)
(* BaseToken.is_valid, with the trace of what the call did: its result,    *)
(* the calls it made in order, and the algorithm and message it handed to  *)
(* verify.                                                                 *)
(***************************************************************************)
Trace(ret, calls, alg, msg) == [ret |-> ret, calls |-> calls, alg |-> alg, msg |-> msg]

NoAlg == [cls |-> "", hash_algo |-> NoHash]

\* The trace of a call that ends with r when r is an exception, and goes on
\* with F of the value of r when it is not.
Traced(r, calls, alg, msg, F(_)) ==
    IF r.exc # "none" THEN Trace(r, calls, alg, msg) ELSE F(r.val)

\* if not alg_instance.verify(...): raise InvalidTokenError(..., token)
RaiseUnlessVerified(v, token) ==
    IF v.exc = "none" /\ ~v.val THEN RaiseWith("InvalidTokenError", token) ELSE v

\* An is_valid that decodes the claimsets before it verifies the signature.
is_valid_claims_first(header, payload, token, secret, alg_instance, verify_claims, utcnow, interned) ==
    Traced(clean_crypto(token), <<"clean_crypto">>, NoAlg, <<>>, LAMBDA c :
    Traced(clean_claimsets(c[1]), <<"clean_crypto", "clean_claimsets">>,
           NoAlg, <<>>, LAMBDA d :
    Traced(RaiseUnlessVerified(verify(alg_instance, c[1], secret, c[2]), token),
           <<"clean_crypto", "clean_claimsets", "verify">>,
           alg_instance, c[1], LAMBDA v :
    Trace(Ok(TRUE), <<"clean_crypto", "clean_claimsets", "verify">>,
          alg_instance, c[1]))))

\* An is_valid that validates the header of the token and not its payload.
is_valid_header_only(header, payload, token, secret, alg_instance, verify_claims, utcnow, interned) ==
    Traced(clean_crypto(token), <<"clean_crypto">>, NoAlg, <<>>, LAMBDA c :
    Traced(RaiseUnlessVerified(verify(alg_instance, c[1], secret, c[2]), token),
           <<"clean_crypto", "verify">>, alg_instance, c[1], LAMBDA v :
    IF ~verify_claims
    THEN Trace(Ok(TRUE), <<"clean_crypto", "verify">>, alg_instance, c[1])
    ELSE
    Traced(clean_claimsets(c[1]),
           <<"clean_crypto", "verify", "clean_claimsets">>,
           alg_instance, c[1], LAMBDA d :
    Traced(claimset_is_valid(header, 1, d[1], utcnow, interned),
           <<"clean_crypto", "verify", "clean_claimsets", "header.is_valid">>,
           alg_instance, c[1], LAMBDA h :
    Trace(Ok(TRUE),
          <<"clean_crypto", "verify", "clean_claimsets", "header.is_valid">>,
          alg_instance, c[1])))))

is_valid(header, payload, token, secret, alg_instance, verify_claims, utcnow, interned) ==
    Traced(clean_crypto(token), <<"clean_crypto">>, NoAlg, <<>>, LAMBDA c :
    Traced(RaiseUnlessVerified(verify(alg_instance, c[1], secret, c[2]), token),
           <<"clean_crypto", "verify">>, alg_instance, c[1], LAMBDA v :
    IF ~verify_claims
    THEN Trace(Ok(TRUE), <<"clean_crypto", "verify">>, alg_instance, c[1])
    ELSE
    Traced(clean_claimsets(c[1]),
           <<"clean_crypto", "verify", "clean_claimsets">>,
           alg_instance, c[1], LAMBDA d :
    Traced(claimset_is_valid(header, 1, d[1], utcnow, interned),
           <<"clean_crypto", "verify", "clean_claimsets", "header.is_valid">>,
           alg_instance, c[1], LAMBDA h :
    Traced(claimset_is_valid(payload, 1, d[2], utcnow, interned),
           <<"clean_crypto", "verify", "clean_claimsets", "header.is_valid",
             "payload.is_valid">>,
           alg_instance, c[1], LAMBDA p :
    Trace(Ok(TRUE),
          <<"clean_crypto", "verify", "clean_claimsets", "header.is_valid",
            "payload.is_valid">>,
          alg_instance, c[1]))))))

(***************************************************************************)
(* The inputs of the model.                                                *)
(***************************************************************************)
\* The UTC clock runs from 0 to MaxClock seconds.
MaxClock == 1

\* The secret the tokens are issued with.
IssuerSecret == JStr(<<115>>)

\* The secrets a verification is tried with: the issuer's 's', the bytes
\* b's\x00', and 'w'.
Secrets == {IssuerSecret, Bytes(<<115, 0>>), JStr(<<119>>)}

Algorithms == {HMACAlgorithm(SHA256), HMACAlgorithm(SHA384), NoneAlgorithm}

\* Header claimset classes: the Header of tests/test_jwt.py, and the same
\* with the base alg claim, whose value is 'none'.
TestHeader == Claimset(<<"HMACAlgClaim", "TypClaim">>, NoKwargs)

NoneHeader == Claimset(<<"BaseAlgClaim", "TypClaim">>, NoKwargs)

Headers == {TestHeader, NoneHeader}

\* Payload claimset classes, without and with a time claim.
IssPayload == Claimset(<<"IssClaim">>, [IssClaim |-> [iss |-> JStr(<<97>>)]])

NbfPayload == Claimset(<<"NbfClaim">>, NoKwargs)

Payloads == {IssPayload, NbfPayload}

\* The bytes a tampering writes over a byte of the payload segment: 'A',
\* which is in the base64 alphabet, and '!', which is not.
TamperBytes == {65, 33}

\* Segments that are no claimset: the base64 of b'{' (not JSON), the base64
\* of b'\xff' (not UTF-8), and 'e30', the base64 of b'{}' less its padding.
NotJsonSegment == urlsafe_b64encode(<<123>>)

NotUtf8Segment == urlsafe_b64encode(<<255>>)

BadPaddingSegment == <<101, 51, 48>>

\* s with the byte b put in after its first n bytes.
Insert(s, n, b) == SubSeq(s, 1, n) \o <<b>> \o SubSeq(s, n + 1, Len(s))

\* s less its last byte.
DropLast(s) == SubSeq(s, 1, Len(s) - 1)

\* The ways a forged token departs from a built one.
ForgeKinds ==
    {"header_only", "four_segments", "header_not_json", "payload_not_json",
     "payload_not_utf8", "payload_bad_padding", "header_bad_byte",
     "signature_bad_padding", "signature_bad_byte"}

\* The signing input of a forged token of the kind, made from the header
\* and payload segments h and p of a built token.
ForgedInput(kind, h, p) ==
    CASE kind = "header_only" -> h
      [] kind = "four_segments" -> h \o <<Dot>> \o p \o <<Dot>> \o p
      [] kind = "header_not_json" -> NotJsonSegment \o <<Dot>> \o p
      [] kind = "payload_not_json" -> h \o <<Dot>> \o NotJsonSegment
      [] kind = "payload_not_utf8" -> h \o <<Dot>> \o NotUtf8Segment
      [] kind = "payload_bad_padding" -> h \o <<Dot>> \o BadPaddingSegment
      [] kind = "header_bad_byte" -> Insert(h, 2, 33) \o <<Dot>> \o p
      [] OTHER -> h \o <<Dot>> \o p

\* The signature segment of a forged token of the kind, made from the
\* signature segment the algorithm gives for its signing input.
ForgedSignature(kind, sig) ==
    CASE kind = "signature_bad_padding" -> DropLast(sig)
      [] kind = "signature_bad_byte" -> Insert(sig, 2, 33)
      [] OTHER -> sig

(***************************************************************************)
(* The state: the UTC clock, the token instance (its header and payload    *)
(* claimsets), the wire token in hand with where it came from, and the     *)
(* last call with its arguments, its result and, for is_valid, its trace.  *)
(***************************************************************************)
VARIABLES now, header, payload, wire, origin, built, op, ret, trace,
          extra_kwargs, threads, profiles, api_settings

vars == <<now, header, payload, wire, origin, built, op, ret, trace,
          extra_kwargs, threads, profiles, api_settings>>

\* A row of auth.models.UserProfile with the fields of its Django User.
Profile(username, is_active, suspended_until, last_suspension) ==
    [username |-> username, is_active |-> is_active,
     suspended_until |-> suspended_until, last_suspension |-> last_suspension]

S_TEST == <<84, 69, 83, 84>>

S_OTHER == <<79, 84, 72, 69, 82>>

\* The UserProfile table after setUp of the tests, with a second user: the
\* profiles by id, each active and never suspended.
TestProfiles ==
    [id \in {1, 2} |->
        Profile(IF id = 1 THEN S_TEST ELSE S_OTHER, TRUE, None, None)]

\* authtoken.settings.DEFAULTS, the settings the model reads.
DEFAULTS ==
    [TOKEN_AUDIENCE |-> None, TOKEN_HEADER_CLAIMSET_CLASS |-> "HS256HeaderClaimset"]

\* The threads that make tokens of claimset_factory classes.
Threads == {"A", "B"}

\* A thread: where it is in its program, the claims of its claimset class,
\* whether the values its token decodes to are the objects of its claims,
\* and what its build and its is_valid returned.
Thread(pc, claims, interned, token, valid) ==
    [pc |-> pc, claims |-> claims, interned |-> interned, wire |-> token,
     valid |-> valid]

NoThread == Thread("start", <<>>, FALSE, Ok(<<>>), Ok(None))

NoBuild == [header |-> TestHeader, alg |-> NoAlg, at |-> 0]

NoTrace == Trace(Ok(None), <<>>, NoAlg, <<>>)

NoCall == [name |-> "", secret |-> JStr(<<>>), alg |-> NoAlg,
           verify_claims |-> FALSE, interned |-> FALSE]

Call(name) == [NoCall EXCEPT !.name = name]

Init ==
    /\ now = 0
    /\ header = TestHeader
    /\ payload \in Payloads
    /\ wire = <<>>
    /\ origin = "none"
    /\ built = NoBuild
    /\ op = NoCall
    /\ ret = Ok(None)
    /\ trace = NoTrace
    /\ extra_kwargs = NoKwargs
    /\ threads = [t \in Threads |-> NoThread]
    /\ profiles = TestProfiles
    /\ api_settings = DEFAULTS

\* No result of a call on the wire token is in hand.
Idle == op.name \in {"", "build"}

\* A second passes on the clock.
Tick ==
    /\ Idle
    /\ now < MaxClock
    /\ now' = now + 1
    /\ UNCHANGED <<profiles, api_settings, extra_kwargs, threads, header, payload, wire, origin, built, op, ret, trace>>

\* token.build(IssuerSecret, alg_instance) on a token whose header claimset
\* is h: the token instance itself (h = header), or a token of the other
\* header class with the same payload class.
Build(h, alg_instance) ==
    LET r == build(h, payload, IssuerSecret, alg_instance, now)
    IN  /\ Idle
        /\ op' = [Call("build") EXCEPT !.secret = IssuerSecret,
                                       !.alg = alg_instance]
        /\ ret' = r
        /\ trace' = NoTrace
        /\ IF r.exc = "none"
           THEN /\ wire' = r.val
                /\ origin' = IF h = header THEN "built" ELSE "foreign"
                /\ built' = [header |-> h, alg |-> alg_instance, at |-> now]
           ELSE UNCHANGED <<wire, origin, built>>
        /\ UNCHANGED <<profiles, api_settings, extra_kwargs, threads, now, header, payload>>

\* The place of the first and of the last byte of the payload segment of a
\* built token.
PayloadStart(token) == LastDot(split_crypto(token).val[1]) + 1

PayloadEnd(token) == LastDot(token) - 1

\* On its way, one byte of the payload segment of a token built with an HMAC
\* algorithm is replaced by another byte.
Tamper(i, b) ==
    /\ Idle
    /\ origin = "built"
    /\ built.alg.cls = "HMACAlgorithm"
    /\ i >= PayloadStart(wire) /\ i <= PayloadEnd(wire)
    /\ wire[i] # b
    /\ wire' = [wire EXCEPT ![i] = b]
    /\ origin' = "tampered"
    /\ op' = NoCall
    /\ ret' = Ok(None)
    /\ UNCHANGED <<profiles, api_settings, extra_kwargs, threads, now, header, payload, built, trace>>

\* On its way, a token built with an HMAC algorithm is cut at its first
\* b'.': what arrives is its header segment alone.
Truncate ==
    /\ Idle
    /\ origin = "built"
    /\ built.alg.cls = "HMACAlgorithm"
    /\ wire' = split(wire).val[1]
    /\ origin' = "truncated"
    /\ op' = NoCall
    /\ ret' = Ok(None)
    /\ UNCHANGED <<profiles, api_settings, extra_kwargs, threads, now, header, payload, built, trace>>

\* A token of the kind is made from the segments of a token built with an
\* HMAC algorithm, and signed with the issuer's secret and that algorithm.
Forge(kind) ==
    LET parts == split(wire).val
        signing_input == ForgedInput(kind, parts[1], parts[2])
        sig == _sign(signing_input, IssuerSecret, built.alg).val
    IN  /\ Idle
        /\ origin = "built"
        /\ built.alg.cls = "HMACAlgorithm"
        /\ wire' = signing_input \o <<Dot>> \o ForgedSignature(kind, sig)
        /\ origin' = kind
        /\ op' = NoCall
        /\ ret' = Ok(None)
        /\ UNCHANGED <<profiles, api_settings, extra_kwargs, threads, now, header, payload, built, trace>>

\* A wire token is in hand and the result of the last call on it was dropped.
Ready == Idle /\ origin # "none"

\* What a call other than is_valid leaves: its name and its result.
Returns(name, r) ==
    /\ op' = Call(name)
    /\ ret' = r
    /\ trace' = NoTrace
    /\ UNCHANGED <<profiles, api_settings, extra_kwargs, threads, now, header, payload, wire, origin, built>>

\* token.is_valid(wire, secret, alg_instance, verify_claims), on a runtime
\* where equal objects are the same object (interned) or are not.
IsValid(secret, alg_instance, verify_claims, interned) ==
    LET t == is_valid(header, payload, wire, secret, alg_instance,
                      verify_claims, now, interned)
    IN  /\ Ready
        /\ verify_claims \/ ~interned
        /\ op' = [name |-> "is_valid", secret |-> secret, alg |-> alg_instance,
                  verify_claims |-> verify_claims, interned |-> interned]
        /\ ret' = t.ret
        /\ trace' = t
        /\ UNCHANGED <<profiles, api_settings, extra_kwargs, threads, now, header, payload, wire, origin, built>>

\* BaseToken.split(wire)
Split == Ready /\ Returns("split", split(wire))

\* BaseToken.clean(wire)
Clean == Ready /\ Returns("clean", clean(wire))

\* BaseToken.split_crypto(wire)
SplitCrypto == Ready /\ Returns("split_crypto", split_crypto(wire))

\* BaseToken.clean_crypto(wire)
CleanCrypto == Ready /\ Returns("clean_crypto", clean_crypto(wire))

\* The signing input of the wire token: what stands before its last b'.'.
SigningInput(token) == rsplit1(token)[1]

\* BaseToken.split_claimsets, on the signing input of the wire token
SplitClaimsets ==
    Ready /\ Returns("split_claimsets", split_claimsets(SigningInput(wire)))

\* BaseToken.clean_claimsets, on the signing input of the wire token
CleanClaimsets ==
    Ready /\ Returns("clean_claimsets", clean_claimsets(SigningInput(wire)))

\* The caller drops the result of the call.
Return ==
    /\ ~Idle
    /\ op' = NoCall
    /\ ret' = Ok(None)
    /\ trace' = NoTrace
    /\ UNCHANGED <<profiles, api_settings, extra_kwargs, threads, now, header, payload, wire, origin, built>>

Next ==
    \/ Tick
    \/ \E h \in Headers, alg_instance \in Algorithms : Build(h, alg_instance)
    \/ \E i \in 1..Len(wire), b \in TamperBytes : Tamper(i, b)
    \/ Truncate
    \/ \E kind \in ForgeKinds : Forge(kind)
    \/ \E secret \in Secrets, alg_instance \in Algorithms,
          verify_claims \in BOOLEAN, interned \in BOOLEAN :
          IsValid(secret, alg_instance, verify_claims, interned)
    \/ Split
    \/ Clean
    \/ SplitCrypto
    \/ CleanCrypto
    \/ SplitClaimsets
    \/ CleanClaimsets
    \/ Return

Spec == Init /\ [][Next]_vars

\* Every JSON document the model parses is in the part of JSON it parses.
Supported == ret.exc # "Unsupported"

(***************************************************************************)
(* The claims of jwt.claims called on their own, as the tests of           *)
(* test_claims.py call them: a claim is instantiated and its is_valid is   *)
(* called with a candidate, on a clock that starts at FirstInstant.        *)
(***************************************************************************)
FirstInstant == 2

\* The candidate instants, in seconds from the clock: a second ago, now, in
\* a second, in 30 seconds, in 7 days.
Offsets == {-1, 0, 1, NbfDefault, ExpDefault}

S_issuer == <<105, 115, 115, 117, 101, 114>>

S_subject == <<115, 117, 98, 106, 101, 99, 116>>

S_audience == <<97, 117, 100, 105, 101, 110, 99, 101>>

\* The claims of TestClaims.setUp, and the other claim classes: each a
\* class and the keyword arguments of its constructor.
ClaimCtors ==
    {<<"BaseClaim", NoKwargs>>,
     <<"TypClaim", NoKwargs>>,
     <<"BaseAlgClaim", NoKwargs>>,
     <<"HMACAlgClaim", NoKwargs>>,
     <<"HMACAlgClaim", [alg |-> SHA384]>>,
     <<"IssClaim", [iss |-> JStr(S_issuer)]>>,
     <<"SubClaim", [sub |-> JStr(S_subject)]>>,
     <<"AudClaim", [aud |-> JStr(S_audience)]>>,
     <<"NbfClaim", NoKwargs>>,
     <<"ExpClaim", NoKwargs>>}

\* The candidates handed to is_valid at the instant utcnow.
Candidates(utcnow) ==
    {None, JStr(<<>>), JStr(S_JWT), JStr(S_none), JStr(S_HS256), JStr(S_HS384),
     JStr(S_issuer), JStr(S_subject), JStr(S_audience), JInt(0)}
    \cup {JInt(utcnow + d) : d \in Offsets}

ClaimInit ==
    /\ now = FirstInstant
    /\ header = TestHeader
    /\ payload = IssPayload
    /\ wire = <<>>
    /\ origin = "none"
    /\ built = NoBuild
    /\ op = NoCall
    /\ ret = Ok(None)
    /\ trace = NoTrace
    /\ extra_kwargs = NoKwargs
    /\ threads = [t \in Threads |-> NoThread]
    /\ profiles = TestProfiles
    /\ api_settings = DEFAULTS

\* A second passes on the clock, between two calls or between
\* claimset.as_claimset() and the claimset.as_json() that follows it.
ClaimTick ==
    /\ op.name \in {"", "as_claimset"}
    /\ now < FirstInstant + MaxClock
    /\ now' = now + 1
    /\ UNCHANGED <<profiles, api_settings, extra_kwargs, threads, header, payload, wire, origin, built, op, ret, trace>>

\* claim(**kw).is_valid(data), where the candidate is the claim's own
\* object (interned) or an equal object made elsewhere.
ClaimIsValid(ctor, data, interned) ==
    /\ op = NoCall
    /\ op' = [name |-> "claim.is_valid",
              self |-> NewClaim(ctor[1], ctor[2], now).val,
              data |-> data, interned |-> interned]
    /\ ret' = claim_is_valid(NewClaim(ctor[1], ctor[2], now).val, data, now,
                             interned)
    /\ UNCHANGED <<profiles, api_settings, extra_kwargs, threads, now, header, payload, wire, origin, built, trace>>

\* The extra kwargs of TestClaimsets.setUp.
TestKwargs ==
    [IssClaim |-> [iss |-> JStr(S_issuer)],
     SubClaim |-> [sub |-> JStr(S_subject)],
     AudClaim |-> [aud |-> JStr(S_audience)]]

\* The claimset of TestClaimsets.setUp; one that starts with its time
\* claims; and two whose SubClaim, or whose every claim, has no entry in the
\* extra kwargs.
TestClaimset ==
    Claimset(<<"IssClaim", "SubClaim", "AudClaim", "NbfClaim", "ExpClaim">>,
             TestKwargs)

TimeFirstClaimset ==
    Claimset(<<"NbfClaim", "ExpClaim", "IssClaim">>, TestKwargs)

NoSubKwargsClaimset ==
    Claimset(<<"IssClaim", "SubClaim", "NbfClaim">>,
             [IssClaim |-> [iss |-> JStr(S_issuer)]])

NoKwargsClaimset == Claimset(<<"IssClaim">>, NoKwargs)

Claimsets ==
    {TestClaimset, TimeFirstClaimset, NoSubKwargsClaimset, NoKwargsClaimset}

\* The decoded maps handed to claimset.is_valid at the instant utcnow; a key
\* that maps to None stands for a key the map does not have, as data.get
\* gives None for both.
DataMaps(utcnow) ==
    {[k \in {S_iss, S_sub, S_aud, S_nbf, S_exp} |->
         IF k = S_iss THEN iss ELSE IF k = S_sub THEN sub
         ELSE IF k = S_aud THEN aud ELSE IF k = S_nbf THEN nbf ELSE exp] :
       iss \in {JStr(S_issuer), JStr(S_subject), None},
       sub \in {JStr(S_subject), None},
       aud \in {JStr(S_audience), JStr(S_issuer)},
       nbf \in {JInt(utcnow - 1), JInt(utcnow + 1), JStr(S_JWT)},
       exp \in {JInt(utcnow + ExpDefault), JInt(utcnow - 1)}}

\* claimset.is_valid(data)
ClaimsetIsValid(cs, data, interned) ==
    LET r == claimset_validate(cs, 1, data, now, interned, <<>>)
    IN  /\ op = NoCall
        /\ op' = [name |-> "claimset.is_valid", self |-> cs, data |-> data,
                  interned |-> interned]
        /\ ret' = r.ret
        /\ trace' = Trace(r.ret, r.calls, NoAlg, <<>>)
        /\ UNCHANGED <<profiles, api_settings, extra_kwargs, threads, now, header, payload, wire, origin, built>>

\* What a call on a claimset leaves: its name, the claimset, the instant of
\* the call and its result.
ClaimsetReturns(name, cs, r) ==
    /\ op' = [name |-> name, self |-> cs, at |-> now]
    /\ ret' = r
    /\ UNCHANGED <<profiles, api_settings, extra_kwargs, threads, now, header, payload, wire, origin, built, trace>>

\* claimset = claimset_cls()
NewClaimset(cs) ==
    op = NoCall /\ ClaimsetReturns("claimset()", cs, claimset_new(cs))

\* claimset.as_json(), as a call of its own or as the second statement of
\* test_as_claimset, on the instance as_claimset was called on.
AsJson(cs) ==
    /\ op = NoCall \/ (op.name = "as_claimset" /\ op.self = cs)
    /\ ClaimsetReturns("as_json", cs, as_json(cs, now))

\* claimset.as_claimset()
AsClaimset(cs) ==
    op = NoCall /\ ClaimsetReturns("as_claimset", cs, as_claimset(cs, now))

\* token_factory(Header, cs)(): a token is made with cs as its payload
\* claimset.
NewToken(cs) ==
    op = NoCall /\ ClaimsetReturns("token()", cs, token_new(TestHeader, cs))

\* token.build(IssuerSecret, HMAC-SHA256) on such a token
TokenBuild(cs) ==
    /\ op = NoCall
    /\ ClaimsetReturns("build", cs,
          Then(token_new(TestHeader, cs), LAMBDA t :
               build(t.header, t.payload, IssuerSecret, HMACAlgorithm(SHA256),
                     now)))

\* The claimset classes handed to token_factory: the JOSE header class,
\* whose alg is optional; the payload class of authtoken, whose aud is
\* required; and a claimset_factory class, which takes no argument.
TokenClasses ==
    {ClaimsetClass("HMACHeaderClaimset", <<"TypClaim", "HMACAlgClaim">>, NoKwargs),
     ClaimsetClass("PayloadClaimset",
                   <<"IssClaim", "AudClaim", "NbfClaim", "ExpClaim">>, NoKwargs),
     ClaimsetClass("FactoryClaimset", TestClaimset.claims, TestKwargs)}

\* Keyword arguments the constructor of the class accepts.
EntryFor(cls) ==
    IF cls.name = "HMACHeaderClaimset" THEN [alg |-> SHA384]
    ELSE IF cls.name = "PayloadClaimset" THEN [aud |-> JInt(1)]
    ELSE NoKwargs

\* The kwargs of token_factory with the entries named.
TokenKwargs(header_cls, payload_cls, entries) ==
    [e \in entries |->
        IF e = "header" THEN EntryFor(header_cls) ELSE EntryFor(payload_cls)]

\* token_factory(header_cls, payload_cls, kwargs), and with kwargs left out
TokenFactoryCall(header_cls, payload_cls, kwargs) ==
    /\ op = NoCall
    /\ op' = [name |-> "token_factory", header_cls |-> header_cls,
              payload_cls |-> payload_cls, kwargs |-> kwargs]
    /\ ret' = token_factory(header_cls, payload_cls, kwargs)
    /\ UNCHANGED <<profiles, api_settings, extra_kwargs, threads, now, header, payload, wire, origin, built, trace>>

\* The hash tuples of HMACAlgorithm, and the JOSE headers made with them.
HashAlgorithms == {SHA256, SHA384, SHA512}

\* A decoded header that names the algorithm.
HeaderData(name) ==
    [k \in {S_typ, S_alg} |-> IF k = S_typ THEN JStr(S_JWT) ELSE JStr(name)]

\* Decoded maps whose issuer, subject and audience are right and whose time
\* claims are good, 0, or not there (None, as data.get gives).
AbsentTimeMaps(utcnow) ==
    {[k \in {S_iss, S_sub, S_aud, S_nbf, S_exp} |->
         IF k = S_iss THEN JStr(S_issuer) ELSE IF k = S_sub THEN JStr(S_subject)
         ELSE IF k = S_aud THEN JStr(S_audience)
         ELSE IF k = S_nbf THEN nbf ELSE exp] :
       nbf \in {JInt(utcnow - 1), JInt(0), None},
       exp \in {JInt(utcnow + ExpDefault), JInt(0), None}}

ClaimNext ==
    \/ ClaimTick
    \/ \E ctor \in ClaimCtors, data \in Candidates(now), interned \in BOOLEAN :
          ClaimIsValid(ctor, data, interned)
    \/ \E cs \in Claimsets, data \in DataMaps(now), interned \in BOOLEAN :
          ClaimsetIsValid(cs, data, interned)
    \/ \E cs \in Claimsets, data \in AbsentTimeMaps(now), interned \in BOOLEAN :
          ClaimsetIsValid(cs, data, interned)
    \/ \E cs \in Claimsets : NewClaimset(cs)
    \/ \E cs \in Claimsets : AsJson(cs)
    \/ \E alg \in HashAlgorithms : AsJson(HMACHeaderClaimset(alg))
    \/ \E alg \in HashAlgorithms, named \in HashAlgorithms, interned \in BOOLEAN :
          ClaimsetIsValid(HMACHeaderClaimset(alg), HeaderData(named.name),
                          interned)
    \/ \E cs \in Claimsets : AsClaimset(cs)
    \/ \E cs \in Claimsets : NewToken(cs)
    \/ \E cs \in Claimsets : TokenBuild(cs)
    \/ \E header_cls \in TokenClasses, payload_cls \in TokenClasses :
          \/ TokenFactoryCall(header_cls, payload_cls, None)
          \/ \E entries \in SUBSET {"header", "payload"} :
                TokenFactoryCall(header_cls, payload_cls,
                                 TokenKwargs(header_cls, payload_cls, entries))
    \/ Return

ClaimSpec == ClaimInit /\ [][ClaimNext]_vars

(***************************************************************************)
(* The algorithms of jwt.algorithms called on their own, as the tests of   *)
(* test_algorithms.py call them, and is_valid called with each of them on  *)
(* the tokens build makes.                                                 *)
(***************************************************************************)
\* b'', b'm' and b'm.n'
Messages == {<<>>, <<109>>, <<109, 46, 110>>}

\* The secrets of the token tests; b's'; the str with the one character
\* U+00E9, its UTF-8 bytes and its Latin-1 byte; and None.
Keys ==
    Secrets \cup {Bytes(<<115>>), JStr(<<233>>), Bytes(<<195, 169>>),
                  Bytes(<<233>>), None}

\* What sign gives, or nothing when it raises.
SignatureOf(alg_instance, msg, k) ==
    IF sign(alg_instance, msg, k).exc = "none"
    THEN {sign(alg_instance, msg, k).val} ELSE {}

\* The signatures tried on a message: the empty one, and those every
\* algorithm makes of the message with every key, whole and cut short by a
\* byte.
Signatures(msg) ==
    {<<>>} \cup UNION {SignatureOf(a, msg, k) \cup
                       {DropLast(sig) : sig \in SignatureOf(a, msg, k)} :
                      a \in Algorithms, k \in Keys}

\* The tokens build makes with the issuer's secret.
BuiltTokens ==
    {build(h, p, IssuerSecret, a, 0).val :
        h \in Headers, p \in Payloads, a \in Algorithms}

AlgInit == Init /\ payload = IssPayload

\* alg_instance.sign(msg, key)
Sign(alg_instance, msg, k) ==
    /\ op = NoCall
    /\ op' = [name |-> "sign", alg |-> alg_instance, msg |-> msg, key |-> k]
    /\ ret' = sign(alg_instance, msg, k)
    /\ UNCHANGED <<profiles, api_settings, extra_kwargs, threads, now, header, payload, wire, origin, built, trace>>

\* alg_instance.verify(msg, key, sig)
Verify(alg_instance, msg, k, sig) ==
    /\ op = NoCall
    /\ op' = [name |-> "verify", alg |-> alg_instance, msg |-> msg, key |-> k,
              sig |-> sig]
    /\ ret' = verify(alg_instance, msg, k, sig)
    /\ UNCHANGED <<profiles, api_settings, extra_kwargs, threads, now, header, payload, wire, origin, built, trace>>

\* token.is_valid(token, secret, alg_instance, verify_claims=False) on a
\* token build made
IsValidBuilt(token, secret, alg_instance) ==
    /\ op = NoCall
    /\ op' = [name |-> "is_valid", token |-> token, secret |-> secret,
              alg |-> alg_instance]
    /\ ret' = is_valid(header, payload, token, secret, alg_instance, FALSE,
                       now, FALSE).ret
    /\ UNCHANGED <<profiles, api_settings, extra_kwargs, threads, now, header, payload, wire, origin, built, trace>>

AlgNext ==
    \/ \E a \in Algorithms, msg \in Messages, k \in Keys : Sign(a, msg, k)
    \/ \E a \in Algorithms, msg \in Messages, k \in Keys :
          \E sig \in Signatures(msg) : Verify(a, msg, k, sig)
    \/ \E token \in BuiltTokens, secret \in Secrets, a \in Algorithms :
          IsValidBuilt(token, secret, a)
    \/ Return

AlgSpec == AlgInit /\ [][AlgNext]_vars

(***************************************************************************)
(* Two threads, each making its own claimset class with claimset_factory   *)
(* and add_kwargs, its own token with token_factory, and calling build and *)
(* is_valid on it.  extra_kwargs is the dict BaseClaimset.extra_kwargs,    *)
(* which every class of claimset_factory reads and add_kwargs updates.     *)
(***************************************************************************)
\* The claim classes a thread may pass to claimset_factory.
ThreadClaims == {"IssClaim", "AudClaim"}

\* The keyword arguments a thread passes to add_kwargs for the claim class:
\* its own name as iss or aud.
OwnKwargs(t, cls) ==
    IF cls = "IssClaim" THEN [iss |-> JStr(IF t = "A" THEN <<65>> ELSE <<66>>)]
    ELSE [aud |-> JStr(IF t = "A" THEN <<65>> ELSE <<66>>)]

ThreadInit == Init /\ payload = IssPayload

\* The step of thread t from pc to the next place of its program.
Step(t, pc, next) ==
    /\ threads[t].pc = pc
    /\ threads' = [threads EXCEPT ![t] = next]
    /\ UNCHANGED <<profiles, api_settings, now, header, payload, wire, origin, built, op, ret, trace>>

\* claimset = claimset_factory(cls)
ClaimsetFactory(t, cls) ==
    /\ Step(t, "start", [threads[t] EXCEPT
                            !.pc = "made",
                            !.claims = claimset_factory(<<cls>>).val])
    /\ UNCHANGED extra_kwargs

\* add_kwargs(claimset, {cls: kwargs})
AddKwargs(t) ==
    /\ Step(t, "made", [threads[t] EXCEPT !.pc = "configured"])
    /\ extra_kwargs' =
          add_kwargs(extra_kwargs,
                     [cls \in {threads[t].claims[1]} |-> OwnKwargs(t, cls)])

\* token = token_factory(Header, claimset)
TokenFactory(t) ==
    /\ token_new(TestHeader, threads[t].claims).exc = "none"
    /\ Step(t, "configured", [threads[t] EXCEPT !.pc = "constructed"])
    /\ UNCHANGED extra_kwargs

\* wire = token.build(IssuerSecret, HMAC-SHA256)
ThreadBuild(t) ==
    /\ Step(t, "constructed",
            [threads[t] EXCEPT
                !.pc = "built",
                !.wire = build(TestHeader,
                               Claimset(threads[t].claims, extra_kwargs),
                               IssuerSecret, HMACAlgorithm(SHA256), now)])
    /\ UNCHANGED extra_kwargs

\* token.is_valid(wire, IssuerSecret, HMAC-SHA256)
ThreadIsValid(t, interned) ==
    /\ Step(t, "built",
            [threads[t] EXCEPT
                !.pc = "done",
                !.interned = interned,
                !.valid = is_valid(TestHeader,
                                   Claimset(threads[t].claims, extra_kwargs),
                                   threads[t].wire.val, IssuerSecret,
                                   HMACAlgorithm(SHA256), TRUE, now,
                                   interned).ret])
    /\ UNCHANGED extra_kwargs

ThreadNext ==
    \/ \E t \in Threads, cls \in ThreadClaims : ClaimsetFactory(t, cls)
    \/ \E t \in Threads : AddKwargs(t)
    \/ \E t \in Threads : TokenFactory(t)
    \/ \E t \in Threads : ThreadBuild(t)
    \/ \E t \in Threads, interned \in BOOLEAN : ThreadIsValid(t, interned)

ThreadSpec == ThreadInit /\ [][ThreadNext]_vars

(***************************************************************************)
(* PermSpec: the suspension gate of auth.permissions.  Requests come with  *)
(* a method and a user; an administrator suspends profile 1 until an       *)
(* instant around the clock's.                                             *)
(***************************************************************************)
\* rest_framework.permissions.SAFE_METHODS
SAFE_METHODS == {"GET", "HEAD", "OPTIONS"}

Methods == SAFE_METHODS \cup {"PUT", "DELETE"}

\* request.user: a Django User (is_authenticated is always True), the
\* AnonymousUser, or None.
User(id) == [is_authenticated |-> TRUE, id |-> id]

AnonymousUser == [is_authenticated |-> FALSE, id |-> 0]

\* The users of requests: those of the two profiles, a user that has no
\* profile, the anonymous user and no user.
RequestUsers == {User(1), User(2), User(3), AnonymousUser, None}

Request(method, user) == [method |-> method, user |-> user]

\* What has_permission leaves: its result and the UserProfile table.
Permission(r, rows) == [ret |-> r, profiles |-> rows]

\* A has_permission that lifts a suspension that has not elapsed.
has_permission_lifts_early(request, rows, t1, t2) ==
    IF request.method \in SAFE_METHODS THEN Permission(Ok(TRUE), rows)
    ELSE IF request.user = None THEN Permission(Ok(FALSE), rows)
    ELSE IF ~request.user.is_authenticated THEN Permission(Ok(TRUE), rows)
    ELSE IF request.user.id \notin DOMAIN rows
    THEN Permission(Raise("DoesNotExist"), rows)
    ELSE IF rows[request.user.id].suspended_until = None
    THEN Permission(Ok(TRUE), rows)
    ELSE Permission(Ok(TRUE),
                    [rows EXCEPT ![request.user.id].suspended_until = None,
                                 ![request.user.id].last_suspension = JInt(t2)])

\* IsNotSuspended.has_permission(request, view), where timezone.now() gives
\* t1 in the comparison and t2 in the update.
has_permission(request, rows, t1, t2) ==
    IF request.method \in SAFE_METHODS THEN Permission(Ok(TRUE), rows)
    ELSE IF request.user = None THEN Permission(Ok(FALSE), rows)
    ELSE IF ~request.user.is_authenticated THEN Permission(Ok(TRUE), rows)
    ELSE IF request.user.id \notin DOMAIN rows
    THEN Permission(Raise("DoesNotExist"), rows)
    ELSE LET user_profile == rows[request.user.id]
         IN  IF user_profile.suspended_until = None
             THEN Permission(Ok(TRUE), rows)
             ELSE IF user_profile.suspended_until.v[1] < t1
             THEN Permission(Ok(TRUE),
                      [rows EXCEPT
                          ![request.user.id].suspended_until = None,
                          ![request.user.id].last_suspension = JInt(t2)])
             ELSE Permission(Ok(FALSE), rows)

PermInit == ClaimInit

\* A second passes on the clock.
PermTick ==
    /\ op = NoCall
    /\ now < FirstInstant + MaxClock
    /\ now' = now + 1
    /\ UNCHANGED <<profiles, api_settings, extra_kwargs, threads, header, payload, wire, origin, built, op, ret, trace>>

\* user_profile.suspended_until = timezone.now() + delta;
\* user_profile.save(), on profile 1 with a delta of -1, 0 or 1 second.
Suspend(delta) ==
    /\ op = NoCall
    /\ profiles' = [profiles EXCEPT ![1].suspended_until = JInt(now + delta)]
    /\ UNCHANGED <<api_settings, extra_kwargs, threads, now, header, payload, wire, origin, built, op, ret, trace>>

\* IsNotSuspended().has_permission(request, view=None); the clock may move
\* by a second between the two timezone.now() of the call.
HasPermission(request, t2) ==
    LET r == has_permission(request, profiles, now, t2)
    IN  /\ op = NoCall
        /\ t2 <= FirstInstant + MaxClock
        /\ op' = [name |-> "has_permission", request |-> request,
                  at |-> now, before |-> profiles]
        /\ ret' = r.ret
        /\ profiles' = r.profiles
        /\ now' = t2
        /\ UNCHANGED <<api_settings, extra_kwargs, threads, header, payload, wire, origin, built, trace>>

PermNext ==
    \/ PermTick
    \/ \E delta \in {-1, 0, 1} : Suspend(delta)
    \/ \E method \in Methods, user \in RequestUsers, t2 \in {now, now + 1} :
          HasPermission(Request(method, user), t2)
    \/ Return

PermSpec == PermInit /\ [][PermNext]_vars

(***************************************************************************)
(* AuthSpec: authtoken.authentication.  Users are deactivated and          *)
(* reactivated while requests present tokens that were issued to the       *)
(* users of the profiles and to a user that is gone.                       *)
(***************************************************************************)
\* The settings of a deployment: the audience of all tokens, if one is set,
\* and the header claimset class, by default a name jwt.claimsets does
\* not define.
Settings ==
    {[TOKEN_AUDIENCE |-> aud, TOKEN_HEADER_CLAIMSET_CLASS |-> cls] :
        aud \in {None, JInt(2)},
        cls \in {"HS256HeaderClaimset", "HMACHeaderClaimset"}}

\* `x or y`
Or(x, y) == IF Falsy(x) THEN y ELSE x

\* get_token_instance(user_profile) for the profile of the id
get_token_instance(settings, id) ==
    IF settings.TOKEN_HEADER_CLAIMSET_CLASS # "HMACHeaderClaimset"
    THEN Raise("ImportError")
    ELSE token_factory(
             ClaimsetClass("HMACHeaderClaimset", <<"TypClaim", "HMACAlgClaim">>, NoKwargs),
             ClaimsetClass("PayloadClaimset",
                           <<"IssClaim", "AudClaim", "NbfClaim", "ExpClaim">>, NoKwargs),
             [payload |-> [aud |-> Or(settings.TOKEN_AUDIENCE, JInt(id))]])

\* UserProfile.objects.get(id=id), by an id of a request header or of a
\* token payload.
GetById(rows, id) ==
    IF id.t # "int" THEN Raise("ValueError")
    ELSE IF id.v[1] \in DOMAIN rows THEN Ok(id)
    ELSE Raise("DoesNotExist")

\* UserProfile.objects.get(user__username=username)
GetByUsername(rows, username) ==
    IF \E id \in DOMAIN rows : rows[id].username = username.v
    THEN Ok(JInt(CHOOSE id \in DOMAIN rows : rows[id].username = username.v))
    ELSE Raise("DoesNotExist")

\* An authenticate_credentials that does not look at is_active.
authenticate_credentials_any_user(rows, found) ==
    IF found.exc = "DoesNotExist" THEN Raise("AuthenticationFailed") ELSE found

\* authenticate_credentials(kwargs), where found is what
\* UserProfile.objects.get(**kwargs) gave: the profile, as its id.
authenticate_credentials(rows, found) ==
    IF found.exc = "DoesNotExist" THEN Raise("AuthenticationFailed")
    ELSE IF found.exc # "none" THEN found
    ELSE IF ~rows[found.val.v[1]].is_active THEN Raise("AuthenticationFailed")
    ELSE found

\* JSONWebTokenAuthentication.get_token_user: the id of the profile, or
\* None.
get_token_user(request, token, rows) ==
    Then(clean(token), LAMBDA c :
    IF ~Falsy(request.username)
    THEN authenticate_credentials(rows, GetByUsername(rows, request.username))
    ELSE IF ~Falsy(request.user_id)
    THEN authenticate_credentials(rows, GetById(rows, request.user_id))
    ELSE IF ~Falsy(DictGet(c[2], S_aud))
    THEN authenticate_credentials(rows, GetById(rows, DictGet(c[2], S_aud)))
    ELSE Ok(None))

\* The exceptions of jwt.exceptions, all of them TokenException.
TokenExceptions ==
    {"TokenException", "MalformedTokenError", "InvalidTokenError",
     "TokenSignatureError", "InvalidClaimError"}

\* except AuthenticationFailed / except TokenException as exc
ExceptAuthentication(r) ==
    IF r.exc \in TokenExceptions \cup {"AuthenticationFailed"}
    THEN Raise("AuthenticationFailed") ELSE r

\* authentication.authenticate with the secret of the settings: the pair
\* (user, token) when compare returns True.
Authenticated(user, token) == [user |-> user, token |-> token]

\* JSONWebTokenAuthentication.authenticate(request) at the instant utcnow;
\* request.auth is the Authorization header split at whitespace.
authenticate(request, rows, settings, utcnow, interned) ==
    IF request.auth = <<>> \/ request.auth[1] # "bearer" THEN Ok(None)
    ELSE IF Len(request.auth) # 2 THEN Raise("AuthenticationFailed")
    ELSE ExceptAuthentication(
         Then(get_token_user(request, request.auth[2], rows), LAMBDA user_profile :
         IF user_profile = None THEN Ok(None)
         ELSE
         Then(get_token_instance(settings, user_profile.v[1]), LAMBDA token_instance :
         Then(is_valid(token_instance.header, token_instance.payload,
                       request.auth[2], IssuerSecret, HMACAlgorithm(SHA256),
                       TRUE, utcnow, interned).ret, LAMBDA valid :
         IF valid THEN Ok(Authenticated(user_profile.v[1], request.auth[2]))
         ELSE Ok(None)))))

\* ObtainAuthToken.post for the profile of the id at the instant utcnow: a
\* token whose aud is the id of the profile, signed with the secret.
IssuedToken(id, utcnow) ==
    build(HMACHeaderClaimset(SHA256), PayloadClaimset(JInt(id)), IssuerSecret,
          HMACAlgorithm(SHA256), utcnow).val

\* Tokens were issued four seconds before the first instant, when every
\* user was active, and at the first instant.
IssueInstants == {FirstInstant - 4, FirstInstant}

\* The tokens of the two users and of user 3, whose profile is gone.
IssuedTokens == {IssuedToken(id, t) : id \in {1, 2, 3}, t \in IssueInstants}

\* The requests: an Authorization header of no word, of another scheme, of
\* the keyword alone, or with a token; and the X_USERNAME and USER-ID
\* headers, each absent or naming a user.
Requests ==
    {[auth |-> auth, username |-> username, user_id |-> user_id] :
        auth \in {<<>>, <<"bearer">>} \cup {<<"basic", t>> : t \in {<<>>}}
                 \cup {<<"bearer", t>> : t \in IssuedTokens},
        username \in {None, JStr(S_TEST), JStr(S_OTHER)},
        user_id \in {None, JInt(2), JInt(3)}}

AuthInit ==
    /\ now = FirstInstant
    /\ header = TestHeader
    /\ payload = IssPayload
    /\ wire = <<>>
    /\ origin = "none"
    /\ built = NoBuild
    /\ op = NoCall
    /\ ret = Ok(None)
    /\ trace = NoTrace
    /\ extra_kwargs = NoKwargs
    /\ threads = [t \in Threads |-> NoThread]
    /\ profiles = TestProfiles
    /\ api_settings \in Settings

\* A second passes on the clock.
AuthTick ==
    /\ op = NoCall
    /\ now < FirstInstant + MaxClock
    /\ now' = now + 1
    /\ UNCHANGED <<profiles, api_settings, extra_kwargs, threads, header, payload, wire, origin, built, op, ret, trace>>

\* user_profile.user.is_active = active; user_profile.user.save()
SetActive(id, active) ==
    /\ op = NoCall
    /\ profiles[id].is_active # active
    /\ profiles' = [profiles EXCEPT ![id].is_active = active]
    /\ UNCHANGED <<api_settings, extra_kwargs, threads, now, header, payload, wire, origin, built, op, ret, trace>>

\* JSONWebTokenAuthentication().authenticate(request)
Authenticate(request, interned) ==
    /\ op = NoCall
    /\ op' = [name |-> "authenticate", request |-> request,
              interned |-> interned]
    /\ ret' = authenticate(request, profiles, api_settings, now, interned)
    /\ UNCHANGED <<profiles, api_settings, extra_kwargs, threads, now, header, payload, wire, origin, built, trace>>

AuthNext ==
    \/ AuthTick
    \/ \E id \in DOMAIN profiles, active \in BOOLEAN : SetActive(id, active)
    \/ \E request \in Requests, interned \in BOOLEAN :
          Authenticate(request, interned)
    \/ Return

AuthSpec == AuthInit /\ [][AuthNext]_vars

(***************************************************************************)
(* The claims.                                                             *)
(***************************************************************************)
\* The wire token in hand came from build with an HMAC algorithm, on the
\* token instance.
BuiltWithHMAC == origin = "built" /\ built.alg.cls = "HMACAlgorithm"

\* The number of b'.' in s.
DotCount(s) == Cardinality({i \in 1..Len(s) : s[i] = Dot})

\* What clean gives for a built token if the round trip holds at the instant
\* utcnow: the maps as_json() parses to, and the signature bytes.
RoundTrip(utcnow) ==
    Ok(<<json_loads(as_json(header, utcnow).val).val,
         json_loads(as_json(payload, utcnow).val).val,
         sign(built.alg, SigningInput(wire), IssuerSecret).val>>)

\* C1: clean of a token built with an HMAC algorithm returns the header map
\* and the payload map that as_json() of the token's claimsets, evaluated
\* after the build, parses to, and the decoded signature bytes.
C1_RoundTrip ==
    (op.name = "clean" /\ BuiltWithHMAC) => ret = RoundTrip(now)

\* The round trip does hold against as_json() evaluated at the instant of
\* the build.
C1_RoundTripAtBuild ==
    (op.name = "clean" /\ BuiltWithHMAC) => ret = RoundTrip(built.at)

\* The two secrets give the same HMAC key: their bytes are equal up to
\* trailing zero bytes.
SameKey(a, b) ==
    HmacKeyBlock(force_bytes(a).val) = HmacKeyBlock(force_bytes(b).val)

\* is_valid was called without claim verification on a token built with an
\* HMAC algorithm, with that algorithm.
VerifiesBuilt ==
    /\ op.name = "is_valid"
    /\ BuiltWithHMAC
    /\ op.alg = built.alg
    /\ ~op.verify_claims

SignatureGood ==
    /\ clean_crypto(wire).exc = "none"
    /\ verify(op.alg, SigningInput(wire), op.secret, clean_crypto(wire).val[2])
          = Ok(TRUE)

ClaimCalls == {"clean_claimsets", "header.is_valid", "payload.is_valid"}

\* C3: in is_valid the claims of the token are decoded and validated only
\* after verify, and only when the signature is good; when the signature
\* check fails, InvalidTokenError is raised and the call stops at verify.
C3_FailClosed ==
    op.name = "is_valid" =>
        /\ \A i \in DOMAIN trace.calls :
              trace.calls[i] \in ClaimCalls =>
                  /\ i > 2
                  /\ trace.calls[2] = "verify"
                  /\ SignatureGood
        /\ (clean_crypto(wire).exc = "none" /\ ~SignatureGood) =>
              /\ ret = RaiseWith("InvalidTokenError", wire)
              /\ trace.calls = <<"clean_crypto", "verify">>

\* A call with claim verification on went through verify to the claims of
\* the token and returned True.
C3_Witness ==
    /\ op.name = "is_valid"
    /\ op.verify_claims
    /\ SignatureGood
    /\ trace.calls[Len(trace.calls)] = "payload.is_valid"
    /\ ret = Ok(TRUE)

\* The header segment of the token decodes to a map whose alg is 'none'.
DeclaresNone(token) ==
    /\ split(token).exc = "none"
    /\ LoadSegment(split(token).val[1]).exc = "none"
    /\ DictGet(LoadSegment(split(token).val[1]).val, S_alg) = JStr(S_none)

\* is_valid was called with an HMAC-SHA256 instance, by a token instance
\* with an HMAC header claimset, on a wire token whose header declares
\* alg 'none'.
VerifiesNoneToken ==
    /\ op.name = "is_valid"
    /\ op.alg = HMACAlgorithm(SHA256)
    /\ header = TestHeader
    /\ DeclaresNone(wire)

\* The algorithm that made the check of an is_valid call is the caller's.
CallerAlgorithm ==
    op.name = "is_valid" /\ Len(trace.calls) >= 2 => trace.alg = op.alg

\* C4 as stated: a wire token whose header declares alg 'none' never makes
\* is_valid return True for a verifier with an HMAC-SHA256 instance and an
\* HMAC header claimset, and the algorithm that makes the check is always
\* the caller's alg_instance.
C4_NoneNeverValid ==
    /\ VerifiesNoneToken => ret # Ok(TRUE)
    /\ CallerAlgorithm

\* C4, amended: such a token never makes is_valid return True when the
\* claims are verified; with verify_claims=False it does only when its
\* signature segment is the caller's HMAC-SHA256 of its signing input; and
\* the algorithm that makes the check is always the caller's alg_instance.
C4_AlgorithmConfusion ==
    /\ VerifiesNoneToken /\ ret = Ok(TRUE) =>
          ~op.verify_claims /\ SignatureGood
    /\ CallerAlgorithm

\* A token that declares alg 'none' and carries a good HMAC-SHA256 signature
\* was refused on its header claims.
C4_Witness ==
    /\ VerifiesNoneToken
    /\ op.verify_claims
    /\ SignatureGood
    /\ ret.exc = "InvalidClaimError"
    /\ trace.calls[Len(trace.calls)] = "header.is_valid"

\* C5: after one byte of the payload segment of a token built with an HMAC
\* algorithm is replaced by another, is_valid with the secret and the
\* algorithm of the build raises; it never returns True.
C5_TamperDetected ==
    (/\ op.name = "is_valid"
     /\ origin = "tampered"
     /\ op.secret = IssuerSecret
     /\ op.alg = built.alg) => ret.exc # "none"

\* A tampered token was refused with the secret and the algorithm of the
\* build.
C5_Witness ==
    /\ op.name = "is_valid"
    /\ origin = "tampered"
    /\ op.secret = IssuerSecret
    /\ op.alg = built.alg
    /\ ret = RaiseWith("InvalidTokenError", wire)
    /\ wire # build(header, payload, IssuerSecret, built.alg, built.at).val

\* C6: build() on a token that was never signed raises TokenSignatureError.
\* The token has no sign operation and stores no signature, so every build
\* is one on a token that was never signed.
C6_BuildNeedsSign ==
    op.name = "build" => ret.exc = "TokenSignatureError"

\* A build step on the token instance that follows a build with the same
\* secret and HMAC algorithm.
Rebuild ==
    /\ BuiltWithHMAC
    /\ op'.name = "build"
    /\ origin' = "built"
    /\ built'.alg = built.alg

\* C7: building the same token instance twice with the same secret and HMAC
\* algorithm gives the same wire string, however much time passed between
\* the two calls.
C7_IdempotentBuild == [][Rebuild => wire' = wire]_vars

\* C8: a wire string that is not three '.'-separated segments is refused:
\* split and clean raise MalformedTokenError and is_valid does not return
\* True; and split_claimsets raises MalformedTokenError for every signing
\* input that is not two '.'-separated parts.
C8_SegmentCount ==
    /\ (op.name \in {"split", "clean"} /\ DotCount(wire) # 2) =>
          ret.exc = "MalformedTokenError"
    /\ (op.name = "is_valid" /\ DotCount(wire) # 2) => ret.exc # "none"
    /\ (op.name = "split_claimsets" /\ DotCount(SigningInput(wire)) # 1) =>
          ret.exc = "MalformedTokenError"

\* The segment base64-decodes to bytes that are not UTF-8 or not JSON.
NotJson(segment) ==
    /\ urlsafe_b64decode(segment).exc = "none"
    /\ LoadSegment(segment).exc \in {"UnicodeDecodeError", "JSONDecodeError"}

\* The signing input has a header or a payload segment that is not JSON.
HasNotJson(claimsets) ==
    /\ split_claimsets(claimsets).exc = "none"
    /\ \E i \in 1..2 : NotJson(split_claimsets(claimsets).val[i])

\* C9: clean_claimsets, and with it clean and is_valid, raise
\* MalformedTokenError for every signing input with a header or payload
\* segment that decodes to bytes that are not UTF-8 JSON; is_valid may also
\* refuse the signature or a claim, and no other exception escapes.
C9_InvalidJson ==
    /\ (op.name = "clean_claimsets" /\ HasNotJson(SigningInput(wire))) =>
          ret.exc = "MalformedTokenError"
    /\ (op.name = "clean" /\ HasNotJson(SigningInput(wire))) =>
          ret.exc = "MalformedTokenError"
    /\ (op.name = "is_valid" /\ HasNotJson(SigningInput(wire))) =>
          ret.exc \in {"none", "MalformedTokenError", "InvalidTokenError",
                       "InvalidClaimError"}

\* A character of the base64url alphabet.
IsUrlsafe(c) ==
    \/ c >= 65 /\ c <= 90
    \/ c >= 97 /\ c <= 122
    \/ c >= 48 /\ c <= 57
    \/ c = 45
    \/ c = 95

\* s is base64url: quads of characters of the alphabet, the last of which
\* may end with one or two '='.
IsBase64Url(s) ==
    /\ Len(s) % 4 = 0
    /\ \E pad \in 0..2 :
          /\ pad <= Len(s)
          /\ \A i \in 1..Len(s) :
                IF i > Len(s) - pad THEN s[i] = 61 ELSE IsUrlsafe(s[i])

\* C10: clean_crypto raises MalformedTokenError carrying the token for every
\* wire token whose signature segment is not base64url, and clean_claimsets
\* raises MalformedTokenError for every signing input with a header or
\* payload segment that is not base64url.
C10_BadBase64 ==
    /\ (/\ op.name = "clean_crypto"
        /\ split_crypto(wire).exc = "none"
        /\ ~IsBase64Url(split_crypto(wire).val[2])) =>
          ret = RaiseWith("MalformedTokenError", wire)
    /\ (/\ op.name = "clean_claimsets"
        /\ split_claimsets(SigningInput(wire)).exc = "none"
        /\ \E i \in 1..2 :
              ~IsBase64Url(split_claimsets(SigningInput(wire)).val[i])) =>
          ret.exc = "MalformedTokenError"

\* What build put on the wire: the header and payload claimsets as they
\* serialize at the instant of the build, and the encoded signature.
BuiltSegments ==
    <<as_claimset(header, built.at).val,
      as_claimset(payload, built.at).val,
      _sign(SigningInput(wire), IssuerSecret, built.alg).val>>

C11_RefusesNoDot ==
    /\ op.name = "split_crypto"
    /\ origin = "truncated"
    /\ ret = RaiseWith("MalformedTokenError", wire)

\* is_valid of a claim of the class was called with an instant after the
\* epoch as candidate.
InstantCall(cls) ==
    /\ op.name = "claim.is_valid"
    /\ op.self.cls = cls
    /\ op.data.t = "int"
    /\ op.data.v[1] >= 1

\* C12: NbfClaim validation of a candidate instant raises InvalidClaimError
\* exactly when the clock has not reached the instant (now < candidate) and
\* accepts for every now >= candidate, the instant itself included.
C12_NbfBoundary ==
    InstantCall("NbfClaim") =>
        IF now < op.data.v[1] THEN ret.exc = "InvalidClaimError"
        ELSE ret.exc = "none"

\* What NbfClaim does: it also refuses the instant itself; a candidate 30
\* seconds ahead is refused and one a second behind is accepted.
C12_NbfAsCoded ==
    InstantCall("NbfClaim") =>
        IF now <= op.data.v[1] THEN ret.exc = "InvalidClaimError"
        ELSE ret = Ok(None)

\* C13: ExpClaim validation of a candidate instant raises InvalidClaimError
\* exactly when the clock has passed the instant (now > candidate) and
\* accepts for every now <= candidate.
C13_ExpBoundary ==
    InstantCall("ExpClaim") =>
        IF now > op.data.v[1] THEN ret.exc = "InvalidClaimError"
        ELSE ret.exc = "none"

\* What ExpClaim does: it also refuses the instant itself; a candidate a
\* second behind is refused and one 7 days ahead is accepted.
C13_ExpAsCoded ==
    InstantCall("ExpClaim") =>
        IF now >= op.data.v[1] THEN ret.exc = "InvalidClaimError"
        ELSE ret = Ok(None)

\* The classes of the reserved identity claims.
IdentityClaims ==
    {"TypClaim", "BaseAlgClaim", "HMACAlgClaim", "IssClaim", "SubClaim",
     "AudClaim"}

\* C14: is_valid of a reserved identity claim (iss, sub, aud, typ, alg)
\* accepts every candidate equal in value to the claim's value(), and
\* raises InvalidClaimError for every other candidate, None included.
C14_ExactEquality ==
    (op.name = "claim.is_valid" /\ op.self.cls \in IdentityClaims) =>
        IF op.data = value(op.self) THEN ret.exc = "none"
        ELSE ret.exc = "InvalidClaimError"

\* What the identity claims do: they accept the candidate that is the very
\* object of the claim's value and refuse every other object, equal or not.
C14_Identity ==
    (op.name = "claim.is_valid" /\ op.self.cls \in IdentityClaims) =>
        IF op.data = value(op.self) /\ op.interned THEN ret = Ok(None)
        ELSE ret.exc = "InvalidClaimError"

\* C15: is_valid of a required claim raises InvalidClaimError for a None
\* candidate; is_valid of an optional claim with no rule of its own accepts
\* a None candidate and returns True.
C15_RequiredClaims ==
    (op.name = "claim.is_valid" /\ op.data = None) =>
        /\ ~Optional(op.self.cls) => ret.exc = "InvalidClaimError"
        /\ op.self.cls = "BaseClaim" => ret = Ok(TRUE)

\* A claim with no rule of its own accepted a None candidate.
C15_Witness ==
    /\ op.name = "claim.is_valid"
    /\ op.self.cls = "BaseClaim"
    /\ Optional(op.self.cls)
    /\ op.data = None
    /\ ret = Ok(TRUE)

\* The required typ claim refused a None candidate.
C15_RequiredRefused ==
    /\ op.name = "claim.is_valid"
    /\ op.self.cls = "TypClaim"
    /\ op.data = None
    /\ ret.exc = "InvalidClaimError"

\* The places of the claims of the claimset in hand that fail against the
\* data in hand, at instantiation or at validation.
Failing ==
    {i \in 1..Len(op.self.claims) :
        ClaimOutcome(op.self, i, op.data, now, op.interned).exc # "none"}

FirstFailing == CHOOSE i \in Failing : \A j \in Failing : i <= j

\* The keys of the first n claims of the claimset in hand, in declaration
\* order.
DeclaredKeys(n) == [i \in 1..n |-> ClaimName(op.self.claims[i])]

\* C16: BaseClaimset.is_valid validates the claims in declaration order,
\* each against data.get(key); it raises the error of the first claim that
\* fails and validates no later claim; it returns True only when every
\* claim accepted.
C16_FailFast ==
    op.name = "claimset.is_valid" =>
        IF Failing = {}
        THEN /\ ret = Ok(TRUE)
             /\ trace.calls = DeclaredKeys(Len(op.self.claims))
        ELSE /\ ret = ClaimOutcome(op.self, FirstFailing, op.data, now,
                                   op.interned)
             /\ \E n \in {FirstFailing - 1, FirstFailing} :
                   trace.calls = DeclaredKeys(n)

\* The claimset of the tests refused a map on its third claim, the aud
\* claim, and left the time claims, which would fail too, unvalidated.
C16_Witness ==
    /\ op.name = "claimset.is_valid"
    /\ op.self = TestClaimset
    /\ Failing = {3, 4, 5}
    /\ trace.calls = <<S_iss, S_sub, S_aud>>
    /\ ret.exc = "InvalidClaimError"

\* The claimset of the tests accepted a map.
C16_Accepted ==
    /\ op.name = "claimset.is_valid"
    /\ op.self = TestClaimset
    /\ ret = Ok(TRUE)

\* A claim of the claimset needs constructor arguments and has no entry in
\* the extra kwargs.
MissingKwargs(cs) ==
    \E i \in 1..Len(cs.claims) : InstantiateClaim(cs, i, now).exc = "TypeError"

\* C17: a claimset with a claim that needs constructor arguments and has no
\* entry in the kwargs mapping fails when the claimset, or the token that
\* holds it, is constructed; the error is never left to as_json,
\* as_claimset, build or is_valid.
C17_ConstructionErrors ==
    /\ (op.name \in {"claimset()", "token()"} /\ MissingKwargs(op.self)) =>
          ret.exc # "none"
    /\ (op.name \in {"as_json", "as_claimset", "build", "claimset.is_valid"}
        /\ MissingKwargs(op.self)) => ret.exc # "TypeError"

\* What the code does: construction instantiates no claim and never fails;
\* the TypeError of the claim's constructor comes out of as_json,
\* as_claimset and build, and out of is_valid when the claims before it
\* accept.
C17_Deferred ==
    /\ op.name \in {"claimset()", "token()"} => ret.exc = "none"
    /\ (op.name \in {"as_json", "as_claimset", "build"}
        /\ MissingKwargs(op.self)) => ret.exc = "TypeError"
    /\ (op.name = "claimset.is_valid" /\ MissingKwargs(op.self)) =>
          ret.exc \in {"InvalidClaimError", "TypeError"}

\* A call on an HMAC algorithm with a str or bytes key.
HMACCall(name) ==
    /\ op.name = name
    /\ op.alg.cls = "HMACAlgorithm"
    /\ op.key.t \in {"str", "bytes"}

C18_Refused ==
    /\ HMACCall("verify")
    /\ op.sig = DropLast(sign(op.alg, op.msg, op.key).val)
    /\ ret = Ok(FALSE)

\* C19: NoneAlgorithm.sign returns the empty byte string for every message
\* and key; NoneAlgorithm.verify returns False for every message, key and
\* signature, the empty one included; and is_valid with a NoneAlgorithm
\* instance raises InvalidTokenError for every token build makes.
C19_NoneAlgorithm ==
    /\ (op.name = "sign" /\ op.alg = NoneAlgorithm) => ret = Ok(<<>>)
    /\ (op.name = "verify" /\ op.alg = NoneAlgorithm) => ret = Ok(FALSE)
    /\ (op.name = "is_valid" /\ op.alg = NoneAlgorithm) =>
          ret = RaiseWith("InvalidTokenError", op.token)

\* is_valid with a NoneAlgorithm instance refused a token that build made
\* with NoneAlgorithm: one that ends with its second '.'.
C19_Witness ==
    /\ op.name = "is_valid"
    /\ op.alg = NoneAlgorithm
    /\ op.token = build(header, payload, IssuerSecret, NoneAlgorithm, 0).val
    /\ op.token[Len(op.token)] = Dot
    /\ ret.exc = "InvalidTokenError"

\* NoneAlgorithm.verify refused the signature NoneAlgorithm.sign makes.
C19_OwnSignatureRefused ==
    /\ op.name = "verify"
    /\ op.alg = NoneAlgorithm
    /\ op.key = None
    /\ op.sig = sign(NoneAlgorithm, op.msg, op.key).val
    /\ ret = Ok(FALSE)

\* The claimset of thread t as it is when the thread runs alone: its claim
\* with the keyword arguments the thread gave.
AloneClaimset(t) ==
    Claimset(threads[t].claims,
             [cls \in {threads[t].claims[1]} |-> OwnKwargs(t, cls)])

\* What build and is_valid return to thread t when it runs alone.
AloneWire(t) ==
    build(TestHeader, AloneClaimset(t), IssuerSecret, HMACAlgorithm(SHA256),
          now)

AloneValid(t) ==
    is_valid(TestHeader, AloneClaimset(t), AloneWire(t).val, IssuerSecret,
             HMACAlgorithm(SHA256), TRUE, now, threads[t].interned).ret

\* Thread t got from build and is_valid what it gets when it runs alone.
Isolated(t) ==
    /\ threads[t].pc \in {"built", "done"} => threads[t].wire = AloneWire(t)
    /\ threads[t].pc = "done" => threads[t].valid = AloneValid(t)

\* C20: when two threads each make their own claimsets (claimset_factory,
\* add_kwargs) and their own token and call build and is_valid, each gets,
\* under every interleaving, the wire string and the validation result it
\* gets when it runs alone.
C20_ThreadIsolation == \A t \in Threads : Isolated(t)

\* What does hold: the threads do not disturb each other when the claims of
\* their claimsets are of different classes.
C20_DistinctClasses ==
    (\A t \in Threads : threads[t].pc # "start")
    /\ threads["A"].claims # threads["B"].claims
        => \A t \in Threads : Isolated(t)

\* as_json follows as_claimset on the same instance, and both returned.
JsonAfterClaimset ==
    /\ op.name = "as_claimset"
    /\ op'.name = "as_json"
    /\ op'.self = op.self
    /\ ret.exc = "none"
    /\ ret'.exc = "none"

\* The claims of cs as a map from each claim's key to its value at utcnow.
ClaimMap(cs, utcnow) ==
    [k \in {key(InstantiateClaim(cs, i, utcnow).val) : i \in 1..Len(cs.claims)}
        |-> value(InstantiateClaim(cs, CHOOSE i \in 1..Len(cs.claims) :
                      key(InstantiateClaim(cs, i, utcnow).val) = k, utcnow).val)]

\* C21: decoding what as_claimset() returned gives exactly the UTF-8 bytes
\* of what a separate as_json() call on the same instance returns, and
\* as_json() is the JSON object that maps each claim's name to its value.
C21_AsClaimset ==
    [][JsonAfterClaimset =>
          /\ urlsafe_b64decode(ret.val) = Ok(encode(ret'.val))
          /\ json_loads(ret'.val).val = ClaimMap(op.self, now')]_vars

\* What the code does: the two agree when both calls fall in the same
\* second, and as_json() is always the object of the claims' names and values
\* at the instant of the call.
C21_SameInstant ==
    [][JsonAfterClaimset =>
          /\ now' = op.at => urlsafe_b64decode(ret.val) = Ok(encode(ret'.val))
          /\ json_loads(ret'.val).val = ClaimMap(op.self, now')]_vars

\* The claimsets of the token instance accept the decoded header and payload
\* of the wire token.
ClaimsAccepted ==
    /\ clean_crypto(wire).exc = "none"
    /\ LET d == clean_claimsets(SigningInput(wire))
       IN  /\ d.exc = "none"
           /\ claimset_is_valid(header, 1, d.val[1], now, op.interned).exc = "none"
           /\ claimset_is_valid(payload, 1, d.val[2], now, op.interned).exc = "none"

\* C22: with verify_claims=False, is_valid / compare returns True for every
\* token whose signature verifies, whatever its claims, and validates no
\* claim; with verify_claims=True it returns True only if, in addition, the
\* header claimset accepts the decoded header and the payload claimset
\* accepts the decoded payload.
C22_VerifyClaimsSwitch ==
    op.name = "is_valid" =>
        /\ ~op.verify_claims =>
              /\ SignatureGood => ret = Ok(TRUE)
              /\ \A i \in DOMAIN trace.calls : trace.calls[i] \notin ClaimCalls
        /\ (op.verify_claims /\ ret = Ok(TRUE)) =>
              SignatureGood /\ ClaimsAccepted

\* With claim verification off, a token whose signature is good and whose
\* claims the claimsets refuse was accepted.
C22_Witness ==
    /\ op.name = "is_valid"
    /\ ~op.verify_claims
    /\ SignatureGood
    /\ ~ClaimsAccepted
    /\ ret = Ok(TRUE)

\* With claim verification on, a token whose signature is good and whose
\* payload the payload claimset refuses was refused.
C22_ClaimsRefused ==
    /\ op.name = "is_valid"
    /\ op.verify_claims
    /\ SignatureGood
    /\ trace.calls[Len(trace.calls)] = "payload.is_valid"
    /\ ret.exc = "InvalidClaimError"

\* The request of the last has_permission call is unsafe and comes from an
\* authenticated user whose profile was suspended until some instant.
SuspensionChecked ==
    /\ op.name = "has_permission"
    /\ op.request.method \notin SAFE_METHODS
    /\ op.request.user # None
    /\ op.request.user.is_authenticated
    /\ op.request.user.id \in DOMAIN op.before
    /\ op.before[op.request.user.id].suspended_until # None

\* C23: for an unsafe request of an authenticated user, has_permission
\* returns False and leaves the profile as it is while suspended_until lies
\* in the future; once suspended_until is earlier than now it returns True,
\* sets suspended_until to None and last_suspension to a time; a safe
\* method is always permitted and changes no profile.
C23_SuspensionGate ==
    /\ SuspensionChecked =>
          LET id == op.request.user.id
              until == op.before[id].suspended_until.v[1]
          IN  /\ until > op.at => ret = Ok(FALSE) /\ profiles = op.before
              /\ until < op.at =>
                    /\ ret = Ok(TRUE)
                    /\ profiles[id].suspended_until = None
                    /\ profiles[id].last_suspension # None
                    /\ \A other \in DOMAIN profiles \ {id} :
                          profiles[other] = op.before[other]
    /\ (op.name = "has_permission" /\ op.request.method \in SAFE_METHODS) =>
          ret = Ok(TRUE) /\ profiles = op.before

\* A suspension that had elapsed was lifted by an unsafe request of the
\* suspended user.
C23_Witness ==
    /\ SuspensionChecked
    /\ op.before[op.request.user.id].suspended_until.v[1] < op.at
    /\ ret = Ok(TRUE)
    /\ profiles[op.request.user.id].suspended_until = None
    /\ profiles[op.request.user.id].last_suspension = JInt(now)

\* An unsafe request of a user whose suspension lies in the future was
\* refused.
C23_Refused ==
    /\ SuspensionChecked
    /\ op.before[op.request.user.id].suspended_until.v[1] > op.at
    /\ ret = Ok(FALSE)

\* The last call was authenticate and it returned a pair (user, token).
ReturnedPair ==
    /\ op.name = "authenticate"
    /\ ret.exc = "none"
    /\ ret.val # None

\* The token of the request decodes, and its payload names in aud the
\* profile of the id.
TokenNames(request, id) ==
    /\ Len(request.auth) = 2
    /\ clean(request.auth[2]).exc = "none"
    /\ DictGet(clean(request.auth[2]).val[2], S_aud) = JInt(id)

\* The request carries a bearer token and no X_USERNAME or USER-ID header.
TokenOnly(request) ==
    /\ Len(request.auth) = 2
    /\ request.auth[1] = "bearer"
    /\ request.username = None
    /\ request.user_id = None

C24_Authenticated ==
    /\ ReturnedPair
    /\ profiles[ret.val.user].is_active

\* The constructor of the claimset class requires arguments.
RequiresArguments(cls) == claimset_init(cls, NoKwargs).exc = "TypeError"

\* The extra_kwargs of the token class of the last token_factory call.
TokenExtraKwargs == IF op.kwargs = None THEN NoKwargs ELSE op.kwargs

\* C25: token_factory raises KeyError exactly when a claimset class whose
\* constructor requires arguments has no entry ('header' or 'payload') in
\* extra_kwargs; a class that needs no argument never needs an entry; and
\* a claimset with an entry is constructed with exactly the kwargs of the
\* entry.
C25_TokenKwargs ==
    op.name = "token_factory" =>
        /\ ret.exc = "KeyError" <=>
              \/ RequiresArguments(op.header_cls)
                 /\ "header" \notin DOMAIN TokenExtraKwargs
              \/ RequiresArguments(op.payload_cls)
                 /\ "payload" \notin DOMAIN TokenExtraKwargs
        /\ (ret.exc = "none" /\ "header" \in DOMAIN TokenExtraKwargs) =>
              ret.val.header
                  = claimset_init(op.header_cls, TokenExtraKwargs.header).val
        /\ (ret.exc = "none" /\ "payload" \in DOMAIN TokenExtraKwargs) =>
              ret.val.payload
                  = claimset_init(op.payload_cls, TokenExtraKwargs.payload).val

\* What the code does: the entries are looked at only after a constructor
\* called without arguments raised TypeError; then a header that is not yet
\* set needs its entry, and the payload needs its entry whether or not its
\* constructor requires arguments.
C25_AsCoded ==
    op.name = "token_factory" =>
        LET failed == RequiresArguments(op.header_cls)
                         \/ RequiresArguments(op.payload_cls)
        IN  /\ ret.exc = "KeyError" <=>
                  /\ failed
                  /\ \/ RequiresArguments(op.header_cls)
                        /\ "header" \notin DOMAIN TokenExtraKwargs
                     \/ "payload" \notin DOMAIN TokenExtraKwargs
            /\ (ret.exc = "none" /\ ~failed) =>
                  /\ ret.val.header = claimset_init(op.header_cls, NoKwargs).val
                  /\ ret.val.payload = claimset_init(op.payload_cls, NoKwargs).val

\* The step is add_kwargs of thread t on its claimset class.
AddsKwargs(t) == threads[t].pc = "made" /\ threads'[t].pc = "configured"

\* The claimset class of thread u exists: claimset_factory returned it.
HasClass(u) == threads[u].pc # "start"

\* B().as_json() for the claimset class of thread u, whose extra_kwargs
\* attribute is the dict shared.
ClassAsJson(u, shared) == as_json(Claimset(threads[u].claims, shared), now)

\* C26: add_kwargs(A, kwargs) changes the extra kwargs of the claimset
\* class A only: for every other claimset class B, of BaseClaimset itself
\* or of another claimset_factory call, B's extra kwargs and what
\* B().as_json() returns stay as they were.
C26_AddKwargsFrame ==
    [][\A t \in Threads : AddsKwargs(t) =>
          /\ as_json(Claimset(<<>>, extra_kwargs'), now)
                = as_json(Claimset(<<>>, extra_kwargs), now)
          /\ \A u \in Threads \ {t} : HasClass(u) =>
                ClassAsJson(u, extra_kwargs') = ClassAsJson(u, extra_kwargs)]_vars

\* What the code does: every class reads the one dict of BaseClaimset, so
\* what add_kwargs(A, kwargs) adds is in the extra kwargs of every class;
\* B().as_json() stays as it was only for a class B whose claims are of
\* other classes than A's.
C26_SharedDict ==
    [][\A t \in Threads : AddsKwargs(t) =>
          /\ \A cls \in DOMAIN extra_kwargs' \ DOMAIN extra_kwargs :
                cls = threads[t].claims[1]
          /\ extra_kwargs'[threads[t].claims[1]]
                = OwnKwargs(t, threads[t].claims[1])
          /\ \A u \in Threads \ {t} :
                (HasClass(u) /\ threads[u].claims # threads[t].claims) =>
                    ClassAsJson(u, extra_kwargs') = ClassAsJson(u, extra_kwargs)]_vars

\* The last call was made on HMACHeaderClaimset(alg) for a hash tuple alg.
OnHMACHeader(name) ==
    /\ op.name = name
    /\ \E alg \in HashAlgorithms : op.self = HMACHeaderClaimset(alg)

\* C27: for every hash tuple alg handed to HMACHeaderClaimset(alg), the
\* alg of the serialized header is alg[0], and header validation accepts
\* that name and refuses the names of the other two.
C27_HeaderAlgorithm ==
    /\ OnHMACHeader("as_json") =>
          /\ ret.exc = "none"
          /\ DictGet(json_loads(ret.val).val, S_alg)
                = JStr(op.self.extra_kwargs.alg.name)
    /\ OnHMACHeader("claimset.is_valid") =>
          (ret.exc = "none" <=>
              op.data[S_alg] = JStr(op.self.extra_kwargs.alg.name))

\* What the code does: whatever alg is, the serialized header names HS256,
\* and validation refuses every name but HS256, which it accepts when the
\* decoded str is the very object of the claim.
C27_AlwaysHS256 ==
    /\ OnHMACHeader("as_json") =>
          /\ ret.exc = "none"
          /\ DictGet(json_loads(ret.val).val, S_alg) = JStr(S_HS256)
    /\ OnHMACHeader("claimset.is_valid") =>
          (ret.exc = "none" <=> (op.data[S_alg] = JStr(S_HS256) /\ op.interned))

\* The X_USERNAME or USER-ID header of the request names the profile of
\* the id.
HeaderNames(request, id) ==
    \/ request.username # None /\ request.username.v = profiles[id].username
    \/ request.username = None /\ request.user_id = JInt(id)

C28_UnsetAudience ==
    ReturnedPair =>
        /\ api_settings.TOKEN_AUDIENCE = None =>
              TokenNames(op.request, ret.val.user)
        /\ api_settings.TOKEN_AUDIENCE # None =>
              DictGet(clean(op.request.auth[2]).val[2], S_aud)
                  = api_settings.TOKEN_AUDIENCE

\* The candidate of a time claim is not there, or is 0.
Absent(data) == data = None \/ data = JInt(0)

\* The instants of the clock
Instants == FirstInstant..(FirstInstant + MaxClock)

\* The first time claim of the claimset whose value the map lacks: its
\* place among the claims, 0 when there is none.
FirstAbsentTime ==
    LET places == {i \in 1..Len(op.self.claims) :
                      /\ IsDateTimeClaim(op.self.claims[i])
                      /\ Absent(DictGet(op.data, ClaimName(op.self.claims[i])))}
    IN  IF places = {} THEN 0
        ELSE CHOOSE i \in places : \A j \in places : i <= j

\* C29: is_valid on a decoded map that lacks the key of an NbfClaim or
\* ExpClaim of the claimset, or carries None or 0 for it, raises
\* InvalidClaimError, whatever the clock says and before the time of the
\* claim is compared, although time claims are not marked required.
C29_AbsentTimeClaims ==
    /\ (op.name = "claim.is_valid" /\ IsDateTimeClaim(op.self.cls)
        /\ Absent(op.data)) =>
          /\ Optional(op.self.cls)
          /\ ret = Raise("InvalidClaimError")
          /\ \A t \in Instants :
                claim_is_valid(op.self, op.data, t, op.interned) = ret
    /\ (op.name = "claimset.is_valid" /\ ~MissingKwargs(op.self)
        /\ FirstAbsentTime > 0) =>
          /\ ret.exc = "InvalidClaimError"
          /\ Len(trace.calls) <= FirstAbsentTime

\* A claimset refused, at its NbfClaim, a map that is right but for its
\* nbf, which is not there.
C29_Witness ==
    /\ op.name = "claimset.is_valid"
    /\ op.self = TestClaimset
    /\ op.interned
    /\ op.data[S_nbf] = None
    /\ op.data[S_exp] = JInt(now + ExpDefault)
    /\ FirstAbsentTime = 4
    /\ trace.calls = <<S_iss, S_sub, S_aud, S_nbf>>
    /\ ret = Raise("InvalidClaimError")

\* is_valid without claim verification accepted the wire token under an
\* HMAC algorithm.
AcceptedUnderHMAC ==
    /\ op.name = "is_valid"
    /\ ~op.verify_claims
    /\ op.alg.cls = "HMACAlgorithm"
    /\ ret = Ok(TRUE)

\* C30: for a secret and an HMAC algorithm, every wire string is_valid
\* accepts (verify_claims=False) is its signing input, a '.', and the
\* base64url of sign(signing input): no other signature segment is
\* accepted for the signing input.
C30_UniqueWireForm ==
    AcceptedUnderHMAC =>
        wire = SigningInput(wire) \o <<Dot>>
                  \o _sign(SigningInput(wire), op.secret, op.alg).val

\* What the code does: the signature segment of an accepted wire string
\* decodes to sign(signing input); bytes outside the base64 alphabet in the
\* segment are skipped by the decoder.
C30_DecodedSignature ==
    AcceptedUnderHMAC =>
        Ok(clean_crypto(wire).val[2])
            = sign(op.alg, SigningInput(wire), op.secret)

====
